---- MODULE Spec2Model ----
(***************************************************************************)
(* State-machine model of ABaseArenaGenerator                              *)
(* (Source/ArenaGenerator/Private/BaseArenaGenerator.cpp).                 *)
(*                                                                         *)
(* Numbers.  Every float of the source is a fixed-point integer with three *)
(* decimals ("milli"): lengths in 1/1000 unit, angles in 1/1000 degree,    *)
(* scalars and sines in 1/1000.  int32 fields stay integers.               *)
(* A placement transform keeps its rotation, the vertical component of its *)
(* location and the values drawn for directional warping; the planar       *)
(* components of the location are not represented.                         *)
(***************************************************************************)
EXTENDS Integers, Sequences, FiniteSets, TLC

\* ------------------------------------------------------------------ bounds
\* Width in bits of the modelled random-stream seed (the low bits of the
\* engine's 32-bit seed).
SeedBits == 3
\* A build operation is taken only while the sink holds at most this many
\* placements (instances plus spawned actors) afterwards.
MaxPlacements == 12
\* A build operation is taken only while OriginOffset.Z stays at or below
\* this many milli-units.
MaxHeight == 3000
\* ConvertToStaticMeshActors is taken only while at most this many baked
\* actors exist afterwards.
MaxBaked == 2

\* ------------------------------------------------------- program constants
MaxSides == 120
MaxTilesPerSideRow == 100
ArenaSeed == 1010101

\* ------------------------------------------------------------- arithmetic
Abs(x) == IF x < 0 THEN -x ELSE x

\* FMath::Clamp(X, Min, Max)
Clamp(x, lo, hi) == IF x < lo THEN lo ELSE IF x < hi THEN x ELSE hi

\* product of two milli values, rounded toward minus infinity
Mul(a, b) == (a \div 1000) * b + ((a % 1000) * b) \div 1000

\* a milli value times an int32
Times(a, n) == a * n

\* quotient of two milli values as a milli value
DivPositive(a, b) == (a \div b) * 1000 + ((a % b) * 1000) \div b
Div(a, b) == IF b > 0 THEN DivPositive(a, b) ELSE -DivPositive(a, -b)

\* FMath::Floor(a / b) for two milli values, b # 0
FloorDiv(a, b) == IF b > 0 THEN a \div b ELSE (-a) \div (-b)

\* FMath::CeilToInt(a / b) for two milli values, b # 0
CeilDiv(a, b) == -FloorDiv(-a, b)

\* sin of whole degrees 0..90, in milli
SinTable ==
  << 0, 17, 35, 52, 70, 87, 105, 122, 139, 156, 174, 191, 208, 225, 242, 259, 276, 292, 309,
     326, 342, 358, 375, 391, 407, 423, 438, 454, 469, 485, 500, 515, 530, 545, 559, 574, 588,
     602, 616, 629, 643, 656, 669, 682, 695, 707, 719, 731, 743, 755, 766, 777, 788, 799, 809,
     819, 829, 839, 848, 857, 866, 875, 883, 891, 899, 906, 914, 921, 927, 934, 940, 946, 951,
     956, 961, 966, 970, 974, 978, 982, 985, 988, 990, 993, 995, 996, 998, 999, 999, 1000, 1000 >>

\* sin of an angle in [0, 90] degrees, linear between table entries
Interpolate(lo, hi, f) == lo + ((hi - lo) * f) \div 1000

SinQuarter(a) ==
  IF a >= 90000 THEN 1000
  ELSE Interpolate(SinTable[a \div 1000 + 1], SinTable[a \div 1000 + 2], a % 1000)

\* the angle of [0, 90] degrees whose sine has the magnitude of sin(r), r in [0, 360)
FoldToQuarter(r) ==
  IF r <= 90000 THEN r
  ELSE IF r <= 180000 THEN 180000 - r
  ELSE IF r <= 270000 THEN r - 180000
  ELSE 360000 - r

\* FMath::Sin(FMath::DegreesToRadians(a)), a in milli-degrees
Sin(a) ==
  (IF a % 360000 <= 180000 THEN 1 ELSE -1) * SinQuarter(FoldToQuarter(a % 360000))

\* FMath::Cos(FMath::DegreesToRadians(a)), a in milli-degrees
Cos(a) == Sin(a + 90000)

\* --------------------------------------------------------------- vectors
Vec(x, y, z) == [X |-> x, Y |-> y, Z |-> z]
ZeroVector == Vec(0, 0, 0)
Splat(v) == Vec(v, v, v)

CalculateOpposite(length, angle) == Mul(length, Cos(angle))

CalculateAdjacent(length, angle) == Mul(length, Sin(angle))

ForwardVectorFromYaw(yaw) == Vec(Cos(yaw), Sin(yaw), 0)

\* ------------------------------------------------------------ enumerations
EArenaBuildOrderRules ==
  {"GridLeadsByDimensions", "GridLeadsByRadius", "PolygonLeadByDimensions", "PolygonLeadByRadius"}
EOriginPlacementType ==
  {"XY_Positive", "XY_Negative", "X_Positive_Y_Negative", "X_Negative_Y_Positive", "Center"}
EArenaSectionType == {"HorizontalGrid", "Polygon"}
EPlacementOrientationRule == {"None", "RotateByYP", "RotateYawRandomly"}
ETypeToPlace == {"StaticMeshes", "Actors"}

GridLed(bor) == bor \in {"GridLeadsByDimensions", "GridLeadsByRadius"}
PolygonLed(bor) == bor \in {"PolygonLeadByDimensions", "PolygonLeadByRadius"}

\* ------------------------------------------------- configuration structs
\* FArenaMesh; Mesh is TRUE for a mesh reference that is not null
FArenaMesh(origin, mesh) == [OriginType |-> origin, Mesh |-> mesh]

FArenaMeshGroupConfig(dims, meshes) ==
  [MeshDimensions |-> dims, MeshScale |-> Splat(1000), GroupMeshes |-> meshes]

FArenaActorConfig(dims, classes) ==
  [ActorDimensions |-> dims, ActorScale |-> Splat(1000), ClassesToSpawn |-> classes]

\* FArenaSectionBuildRules with the defaults of the struct
FArenaSectionBuildRules ==
  [ SectionType |-> "Polygon",
    SectionAmount |-> 1,
    AssetToPlace |-> "StaticMeshes",
    ObjectGroupId |-> 0,
    bUpdatesOriginOffsetHeight |-> TRUE,
    DefaultRotation |-> [Pitch |-> 0, Yaw |-> 0, Roll |-> 0],
    RotationRule |-> "None",
    YawPossibilities |-> 4,
    bWarpPlacement |-> FALSE,
    WarpRange |-> Vec(0, 0, 1000),
    WarpConcavityStrength |-> 0,
    InitOffsetByWidthScalar |-> 0,
    OffsetByWidthIncrement |-> 0,
    InitOffsetByHeightScalar |-> 0,
    OffsetByHeightIncrement |-> 1000 ]

FArenaSectionTargets(radius, sides, tiles, dims) ==
  [ TargetInscribedRadius |-> radius,
    TargetPolygonSides |-> sides,
    TargetTilesPerSide |-> tiles,
    TargetGridDimensions |-> dims ]

FArenaSection(bor, targets, rules) ==
  [SectionBuildOrderRules |-> bor, Targets |-> targets, BuildRules |-> rules]

\* ------------------------------------------------------- vector helpers
AddV(a, b) == Vec(a.X + b.X, a.Y + b.Y, a.Z + b.Z)
SubV(a, b) == Vec(a.X - b.X, a.Y - b.Y, a.Z - b.Z)
\* FVector * FVector, component by component
MulV(a, b) == Vec(Mul(a.X, b.X), Mul(a.Y, b.Y), Mul(a.Z, b.Z))
\* FVector * float
ScaleV(a, k) == Vec(Mul(a.X, k), Mul(a.Y, k), Mul(a.Z, k))

\* --------------------------------------------------------- random stream
SeedModulus == 2 ^ SeedBits

\* FRandomStream(ArenaSeed): the low SeedBits bits of the seed
SeededStream == ArenaSeed % SeedModulus

\* FRandomStream::MutateSeed, Seed = Seed * 196314165 + 907633515, on the
\* low SeedBits bits of the seed
MutateSeed(seed) ==
  (seed * (196314165 % SeedModulus) + (907633515 % SeedModulus)) % SeedModulus

\* FRandomStream::GetFraction after the mutation, as a milli value in [0, 1)
GetFraction(seed) == (seed * 1000) \div SeedModulus

\* FRandomStream::RandRange(Min, Max): [value, stream after the draw]
RandRange(seed, lo, hi) ==
  LET next == MutateSeed(seed)
      range == (hi - lo) + 1
  IN  [Value |-> lo + (IF range > 0 THEN (next * range) \div SeedModulus ELSE 0),
       Stream |-> next]

\* FRandomStream::FRandRange(Min, Max) on milli values
FRandRange(seed, lo, hi) ==
  LET next == MutateSeed(seed)
  IN  [Value |-> lo + Mul(hi - lo, GetFraction(next)), Stream |-> next]

\* ------------------------------------------------------------ the world
\* Objects alive in the host scene: instanced-mesh components ("ISM"),
\* spawned actors ("Actor") and baked actors ("StaticMeshActor").
\* bStale marks an object that existed when the latest WipeArena began.
NullObject == 0

NewObjectId(world) ==
  IF world = {} THEN 1
  ELSE (CHOOSE m \in {o.Id : o \in world} : \A o \in world : o.Id <= m) + 1

WorldObject(id, class) == [Id |-> id, Class |-> class, Instances |-> <<>>, bStale |-> FALSE]

\* ids held by the buckets of MeshInstances
SeqRange(q) == {q[i] : i \in DOMAIN q}

BucketIds(meshInstances) == UNION {SeqRange(meshInstances[b]) : b \in DOMAIN meshInstances}

\* out-of-range reads: outcome chosen by the build, see RangeCheckFails, ReadsGarbage
ValidIndex(q, i) == i >= 0 /\ i < Len(q)

\* ----------------------------------------------------------- operations
\* Each operation is a function from the generator record g (every
\* variable of the model as a field) to the generator record after it.

\* log written by the operations of one public call
ClearLog(g) ==
  [g EXCEPT !.Errors = 0, !.Warnings = 0, !.Builds = <<>>, !.Emitted = <<>>, !.Derived = <<>>]

\* ArenaGenLog_Error, ArenaGenLog_Warning
LogError(g) == [g EXCEPT !.Errors = @ + 1]
LogWarning(g) == [g EXCEPT !.Warnings = @ + 1]

\* WipeArena without the loop over SpawnedActors
DestroyedComponentsOnly(g) == BucketIds(g.MeshInstances) \ {NullObject}

\* the objects WipeArena destroys (BaseArenaGenerator.cpp:90-116)
Destroyed(g) == (BucketIds(g.MeshInstances) \cup SeqRange(g.SpawnedActors)) \ {NullObject}

\* ABaseArenaGenerator::WipeArena
WipeArena(g) ==
  [g EXCEPT
     !.UsedGroupIndices = <<>>,
     !.MeshInstances = <<>>,
     !.SpawnedActors = <<>>,
     !.World = {[o EXCEPT !.bStale = TRUE] : o \in {w \in g.World : w.Id \notin Destroyed(g)}},
     !.TotalInstances = 0,
     !.CurrentBOR = "PolygonLeadByRadius",
     !.OriginOffset = ZeroVector,
     !.PreviousMeshSize = ZeroVector,
     !.PreviousTilesPerSide = 0,
     !.PreviousLastPosition = ZeroVector,
     !.FocusGridIndex = 0,
     !.FocusPolygonIndex = 0]

\* MeshGroups[i]; an index outside the array reads what the build yields
MeshGroupRead(g, i) == IF ValidIndex(g.MeshGroups, i) THEN g.MeshGroups[i + 1] ELSE g.UB.Group

\* the scan for the first rule of a section type (BaseArenaGenerator.cpp:149-153)
FocusScan(rules, type, old) ==
  LET hits == {i \in DOMAIN rules : rules[i].SectionType = type}
  IN  IF hits = {} THEN old
      ELSE rules[CHOOSE i \in hits : \A j \in hits : i <= j].ObjectGroupId

\* InteriorAngle = ((ArenaSides - 2) * 180) / ArenaSides, an int32 division
\* stored in a float
InteriorAngleOf(sides) == (((sides - 2) * 180) \div sides) * 1000

\* ExteriorAngle = 360.f / ArenaSides
ExteriorAngleOf(sides) == 360000 \div sides

\* TilesPerArenaSide of the two polygon-led policies
PolygonLedTiles(bor, targets, interior, polyX) ==
  IF bor = "PolygonLeadByDimensions" THEN targets.TargetTilesPerSide
  ELSE FloorDiv(2 * CalculateOpposite(targets.TargetInscribedRadius, interior \div 2), polyX)

\* SideLength from a tile count clamped for the multiplication only
SideLengthOfClampedTiles(polyX, tiles) == Times(polyX, Clamp(tiles, 1, MaxTilesPerSideRow))

\* SideLength of the two polygon-led policies
PolygonLedSideLength(polyX, tiles) == Times(polyX, tiles)

\* the policy switch (BaseArenaGenerator.cpp:159-220)
DeriveGeometry(bor, targets, interior, gridX, polyX) ==
  CASE bor = "GridLeadsByDimensions" ->
         LET radius == (Times(gridX, targets.TargetGridDimensions - 1)) \div 2
             side == 2 * CalculateOpposite(radius, interior \div 2)
         IN  [ArenaDimensions |-> targets.TargetGridDimensions,
              InscribedRadius |-> radius,
              SideLength |-> side,
              TilesPerArenaSide |-> Clamp(FloorDiv(side, polyX), 1, MaxTilesPerSideRow),
              Apothem |-> Abs(CalculateAdjacent(radius, interior \div 2))]
    [] bor = "GridLeadsByRadius" ->
         LET dims == IF targets.TargetInscribedRadius > 2 * gridX
                     THEN FloorDiv(targets.TargetInscribedRadius, gridX) ELSE 2
             radius == (Times(gridX, dims)) \div 2
             side == 2 * CalculateOpposite(radius, interior \div 2)
         IN  [ArenaDimensions |-> dims,
              InscribedRadius |-> radius,
              SideLength |-> side,
              TilesPerArenaSide |-> Clamp(FloorDiv(side, polyX), 1, MaxTilesPerSideRow),
              Apothem |-> Abs(CalculateAdjacent(radius, interior \div 2))]
    [] OTHER ->
         LET tiles == PolygonLedTiles(bor, targets, interior, polyX)
             side == PolygonLedSideLength(polyX, tiles)
             radius == Div(side \div 2, Sin(90000 - interior \div 2))
         IN  [ArenaDimensions |-> CeilDiv(radius * 2, gridX),
              InscribedRadius |-> radius,
              SideLength |-> side,
              TilesPerArenaSide |-> tiles,
              Apothem |-> Abs(CalculateAdjacent(radius, interior \div 2))]

\* the derived geometry held by the generator g
GeometryOf(g) ==
  [ ArenaSides |-> g.ArenaSides, TilesPerArenaSide |-> g.TilesPerArenaSide,
    InscribedRadius |-> g.InscribedRadius, SideLength |-> g.SideLength,
    Apothem |-> g.Apothem, ArenaDimensions |-> g.ArenaDimensions ]

\* the geometry written by the policy switch
WithGeometry(g, geo, Section) ==
  [g EXCEPT
     !.ArenaDimensions = geo.ArenaDimensions,
     !.InscribedRadius = geo.InscribedRadius,
     !.SideLength = geo.SideLength,
     !.TilesPerArenaSide = geo.TilesPerArenaSide,
     !.Apothem = geo.Apothem,
     !.Derived = Append(@, [Aborted |-> FALSE, Section |-> Section,
                            FocusGridIndex |-> g.FocusGridIndex,
                            FocusPolygonIndex |-> g.FocusPolygonIndex,
                            Geometry |-> [ ArenaSides |-> g.ArenaSides,
                                           TilesPerArenaSide |-> geo.TilesPerArenaSide,
                                           InscribedRadius |-> geo.InscribedRadius,
                                           SideLength |-> geo.SideLength,
                                           Apothem |-> geo.Apothem,
                                           ArenaDimensions |-> geo.ArenaDimensions ]])]

\* the assignments before the policy switch (BaseArenaGenerator.cpp:140-157)
WithAngles(g, Section) ==
  [g EXCEPT
     !.OriginOffset = ZeroVector,
     !.ArenaSides = Clamp(Section.Targets.TargetPolygonSides, 3, MaxSides),
     !.InteriorAngle = InteriorAngleOf(Clamp(Section.Targets.TargetPolygonSides, 3, MaxSides)),
     !.ExteriorAngle = ExteriorAngleOf(Clamp(Section.Targets.TargetPolygonSides, 3, MaxSides)),
     !.FocusGridIndex = FocusScan(Section.BuildRules, "HorizontalGrid", g.FocusGridIndex),
     !.FocusPolygonIndex = FocusScan(Section.BuildRules, "Polygon", g.FocusPolygonIndex),
     !.CurrentBOR = Section.SectionBuildOrderRules]

\* the policy switch on the generator g1 left by the assignments before it
PolicySwitch(g1, Section) ==
  IF (~ValidIndex(g1.MeshGroups, g1.FocusGridIndex) \/ ~ValidIndex(g1.MeshGroups, g1.FocusPolygonIndex))
     /\ g1.UB.bCrash
  THEN [g1 EXCEPT !.Crashed = TRUE]
  ELSE WithGeometry(g1,
                    DeriveGeometry(Section.SectionBuildOrderRules, Section.Targets, g1.InteriorAngle,
                                   MeshGroupRead(g1, g1.FocusGridIndex).MeshDimensions.X,
                                   MeshGroupRead(g1, g1.FocusPolygonIndex).MeshDimensions.X),
                    Section)

\* ABaseArenaGenerator::CalculateSectionParameters
CalculateSectionParameters(g, Section) ==
  IF g.Crashed THEN g
  ELSE IF g.MeshGroups = <<>>
  THEN [LogError(g) EXCEPT !.Derived = Append(@, [Aborted |-> TRUE, Section |-> Section])]
  ELSE PolicySwitch(WithAngles(g, Section), Section)

\* ------------------------------------------------------------ pivot math
\* a float that is infinite or not a number (a division by zero)
NonFinite == -(2 ^ 30)

\* int32 division of C++, truncating toward zero
TruncDiv(a, b) == IF (a >= 0) = (b > 0) THEN Abs(a) \div Abs(b) ELSE -(Abs(a) \div Abs(b))

\* FMath::Clamp(numerator / denominator, 0.f, 1.f) of an int over an int
\* converted to float; x / 0 is infinite or NaN and clamps to the maximum
ClampedRatio(num, den) ==
  IF den = 0 THEN 1000
  ELSE Clamp(IF den > 0 THEN (num * 1000) \div den ELSE -((num * 1000) \div (-den)), 0, 1000)

\* the scalar ConcaveWarp of ABaseArenaGenerator::PlacementWarpingConcavity
ConcaveWarp(ColMidpoint, RowMidpoint, Col, Row, ConcavityStrength) ==
  Mul(ConcavityStrength,
      Clamp(Mul(ClampedRatio(Abs(Col - ColMidpoint), RowMidpoint),
                ClampedRatio(Abs(Row - RowMidpoint), RowMidpoint)), 0, 1000))

\* ABaseArenaGenerator::PlacementWarpingConcavity
PlacementWarpingConcavity(ColMidpoint, RowMidpoint, Col, Row, ConcavityStrength, WarpDirection) ==
  ScaleV(WarpDirection, ConcaveWarp(ColMidpoint, RowMidpoint, Col, Row, ConcavityStrength))

\* ABaseArenaGenerator::PlacementWarpingDirectional: the three values drawn,
\* as coefficients of DirFV, DirRV and the vertical axis, and the stream
\* after the draws (drawn in the order the expression is written)
PlacementWarpingDirectional(seed, OffsetRanges) ==
  LET dx == FRandRange(seed, -OffsetRanges.X, OffsetRanges.X)
      dy == FRandRange(dx.Stream, -OffsetRanges.Y, OffsetRanges.Y)
      dz == FRandRange(dy.Stream, -OffsetRanges.Z, OffsetRanges.Z)
  IN  [Value |-> Vec(dx.Value, dy.Value, dz.Value), Stream |-> dz.Stream]

\* ABaseArenaGenerator::RotatedMeshOffset
RotatedMeshOffset(OriginType, MeshSize, RotationIndex) ==
  CASE OriginType = "XY_Positive" ->
         (CASE RotationIndex = 1 -> Vec(MeshSize.X, 0, 0)
            [] RotationIndex = 2 -> Vec(MeshSize.X, MeshSize.Y, 0)
            [] RotationIndex = 3 -> Vec(0, MeshSize.Y, 0)
            [] OTHER -> ZeroVector)
    [] OriginType = "XY_Negative" ->
         (CASE RotationIndex = 0 -> Vec(MeshSize.X, MeshSize.Y, 0)
            [] RotationIndex = 1 -> Vec(0, MeshSize.Y, 0)
            [] RotationIndex = 3 -> Vec(MeshSize.X, 0, 0)
            [] OTHER -> ZeroVector)
    [] OriginType = "X_Positive_Y_Negative" ->
         (CASE RotationIndex = 0 -> Vec(0, MeshSize.Y, 0)
            [] RotationIndex = 2 -> Vec(MeshSize.X, 0, 0)
            [] RotationIndex = 3 -> Vec(MeshSize.X, MeshSize.Y, 0)
            [] OTHER -> ZeroVector)
    [] OriginType = "X_Negative_Y_Positive" ->
         (CASE RotationIndex = 0 -> Vec(MeshSize.X, 0, 0)
            [] RotationIndex = 1 -> Vec(MeshSize.X, MeshSize.Y, 0)
            [] RotationIndex = 2 -> Vec(0, MeshSize.Y, 0)
            [] OTHER -> ZeroVector)
    [] OTHER -> ZeroVector

\* ABaseArenaGenerator::OffsetMeshAlongDirections.  Span has no initializer:
\* where no branch assigns it the function returns what the build left
\* there, Uninitialized.
OffsetMeshAlongDirections(FV, RV, OriginType, MeshSize, RotationIndex, Uninitialized) ==
  CASE OriginType = "XY_Positive" ->
         (CASE RotationIndex = 1 -> ScaleV(FV, MeshSize.X)
            [] RotationIndex = 2 -> AddV(ScaleV(FV, MeshSize.X), ScaleV(RV, MeshSize.Y))
            [] RotationIndex = 3 -> ScaleV(RV, MeshSize.Y)
            [] OTHER -> Uninitialized)
    [] OriginType = "XY_Negative" ->
         (CASE RotationIndex = 0 -> AddV(ScaleV(FV, MeshSize.X), ScaleV(RV, MeshSize.Y))
            [] RotationIndex = 1 -> ScaleV(RV, MeshSize.Y)
            [] RotationIndex = 3 -> ScaleV(FV, MeshSize.X)
            [] OTHER -> Uninitialized)
    [] OriginType = "X_Positive_Y_Negative" ->
         (CASE RotationIndex = 0 -> ScaleV(RV, MeshSize.Y)
            [] RotationIndex = 2 -> ScaleV(FV, MeshSize.X)
            [] RotationIndex = 3 -> AddV(ScaleV(FV, MeshSize.X), ScaleV(RV, MeshSize.Y))
            [] OTHER -> Uninitialized)
    [] OriginType = "X_Negative_Y_Positive" ->
         (CASE RotationIndex = 0 -> ScaleV(FV, MeshSize.X)
            [] RotationIndex = 1 -> AddV(ScaleV(FV, MeshSize.X), ScaleV(RV, MeshSize.Y))
            [] RotationIndex = 2 -> ScaleV(RV, MeshSize.Y)
            [] OTHER -> Uninitialized)
    [] OTHER -> ZeroVector

\* OriginOffsetScalar with the Center pivot treated as the XY_Positive corner
OriginOffsetScalarOfCorners(OriginType) ==
  CASE OriginType = "XY_Negative" -> Vec(-500, -500, 0)
    [] OriginType = "X_Positive_Y_Negative" -> Vec(500, -500, 0)
    [] OriginType = "X_Negative_Y_Positive" -> Vec(-500, 500, 0)
    [] OTHER -> Vec(500, 500, 0)

\* ABaseArenaGenerator::OriginOffsetScalar
OriginOffsetScalar(OriginType) ==
  CASE OriginType = "XY_Positive" -> Vec(500, 500, 0)
    [] OriginType = "XY_Negative" -> Vec(-500, -500, 0)
    [] OriginType = "X_Positive_Y_Negative" -> Vec(500, -500, 0)
    [] OriginType = "X_Negative_Y_Positive" -> Vec(-500, 500, 0)
    [] OTHER -> ZeroVector

\* ABaseArenaGenerator::OffsetMeshToCenter
OffsetMeshToCenter(OriginType, MeshSize, angle) ==
  IF OriginType = "Center" THEN ZeroVector
  ELSE LET cosTheta == Cos(angle)
           sinTheta == Sin(angle)
           InitialCenter == MulV(OriginOffsetScalar(OriginType), MeshSize)
           RotatedCenter == Vec(Mul(InitialCenter.X, cosTheta) - Mul(InitialCenter.Y, sinTheta),
                                Mul(InitialCenter.X, sinTheta) + Mul(InitialCenter.Y, cosTheta),
                                0)
       IN  SubV(InitialCenter, RotatedCenter)

\* ----------------------------------------------- origin offset of a rule
\* (MeshSize.X * ArenaDimensions * MeshScale.X)
SpanX(g, MeshSize, MeshScale) == Mul(Times(MeshSize.X, g.ArenaDimensions), MeshScale.X)
SpanY(g, MeshSize, MeshScale) == Mul(Times(MeshSize.Y, g.ArenaDimensions), MeshScale.Y)
\* ((MeshSize.X * ArenaDimensions * MeshScale.X) - (Apothem * 2)) / 2
Inset(g, MeshSize, MeshScale) == (SpanX(g, MeshSize, MeshScale) - g.Apothem * 2) \div 2
\* (MeshSize.X * (0.5f * ArenaDimensions) * MeshScale.X) - (SideLength / 2)
HalfSpanInset(g, MeshSize, MeshScale) ==
  SpanX(g, MeshSize, MeshScale) \div 2 - g.SideLength \div 2

\* PolygonOffset of the Center placement (BaseArenaGenerator.cpp:331-333)
PolygonOffset(g, MeshSize, CurrTilesPerSide) ==
  LET tilesOfSide == Div(g.SideLength, MeshSize.X)
      fv == ForwardVectorFromYaw(g.InteriorAngle \div 2)
  IN  IF tilesOfSide = 0 THEN Vec(NonFinite, NonFinite, 0)
      ELSE LET k == Div(CurrTilesPerSide * 1000, tilesOfSide)
           IN  Vec(Mul(Mul(fv.X, g.InscribedRadius), k), Mul(Mul(fv.Y, g.InscribedRadius), k), 0)

Negate(x) == IF x = NonFinite THEN NonFinite ELSE -x

\* the switch on ArenaPlacementOnActor (BaseArenaGenerator.cpp:319-442)
UpdatedOriginOffset(g, Section, MeshSize, MeshScale, CurrTilesPerSide) ==
  LET z == g.OriginOffset.Z
      grid == Section.SectionType = "HorizontalGrid"
      gridLed == GridLed(g.CurrentBOR)
      span == SpanX(g, MeshSize, MeshScale)
      inset == Inset(g, MeshSize, MeshScale)
      half == HalfSpanInset(g, MeshSize, MeshScale)
      po == PolygonOffset(g, MeshSize, CurrTilesPerSide)
  IN  CASE g.ArenaPlacementOnActor = "XY_Positive" ->
             IF grid THEN Vec(0, 0, z)
             ELSE IF gridLed THEN Vec(inset, inset, z)
             ELSE Vec(half, inset, z)
        [] g.ArenaPlacementOnActor = "X_Positive_Y_Negative" ->
             IF grid THEN Vec(0, -SpanY(g, MeshSize, MeshScale), z)
             ELSE IF gridLed THEN Vec(inset, -span + inset, z)
             ELSE Vec(half, -span + inset, z)
        [] g.ArenaPlacementOnActor = "XY_Negative" ->
             IF grid THEN Vec(-span, -SpanY(g, MeshSize, MeshScale), z)
             ELSE IF gridLed THEN Vec(-span + inset, -span + inset, z)
             ELSE Vec(-span + half, -span + inset, z)
        [] g.ArenaPlacementOnActor = "X_Negative_Y_Positive" ->
             IF grid THEN Vec(-span, 0, z)
             ELSE IF gridLed
                  THEN Vec(-g.Apothem - g.SideLength \div 2 - (MeshSize.X * 3) \div 4, inset, z)
             ELSE Vec(-span + half, inset, z)
        [] OTHER ->
             IF grid THEN Vec(-(span \div 2), -(SpanY(g, MeshSize, MeshScale) \div 2), z)
             ELSE IF gridLed THEN Vec(Negate(po.X), Negate(po.Y), z)
             ELSE Vec(-(g.SideLength \div 2), -g.Apothem, z)

\* --------------------------------------------------------- BuildSection
\* TArray::Find, 0-based
Find(q, x) == (CHOOSE i \in DOMAIN q : q[i] = x) - 1

\* the two early returns of BuildSection (BaseArenaGenerator.cpp:263-272)
Rejects(g, Section) ==
  \/ Section.AssetToPlace = "StaticMeshes" /\ g.MeshGroups = <<>>
  \/ Section.AssetToPlace = "Actors"
       /\ (g.ActorGroups = <<>> \/ g.ActorGroups[1].ClassesToSpawn = <<>>)

\* if (Section.SectionAmount < 1) { Section.SectionAmount = 1; }
CoercedAmount(amount) == IF amount < 1 THEN 1 ELSE amount

\* a resolution that always takes the first group
ResolveToFirstGroup(ObjectGroupId, num) == 0

\* the clamp of the group index (BaseArenaGenerator.cpp:289, 297)
ResolveGroupIndex(ObjectGroupId, num) ==
  IF ObjectGroupId < num /\ ObjectGroupId > 0 THEN ObjectGroupId ELSE 0

\* MeshScalar == 1.f, with PreviousMeshSize already defaulted to MeshSize
MeshScalarIsOne(previousX, meshX) == previousX = 0 \/ meshX = previousX

\* a CurrTilesPerSide that is TilesPerArenaSide whatever the mesh size
TilesPerSideNeverRecomputed(g, previous, MeshSize) == g.TilesPerArenaSide

\* CurrTilesPerSide (BaseArenaGenerator.cpp:312-313)
CurrTilesPerSideOf(g, previous, MeshSize) ==
  IF MeshScalarIsOne(previous.X, MeshSize.X) THEN g.TilesPerArenaSide
  ELSE Clamp(FloorDiv(2 * CalculateOpposite(g.InscribedRadius, g.InteriorAngle \div 2), MeshSize.X),
             1, MaxTilesPerSideRow)

\* SectionDimensions (BaseArenaGenerator.cpp:613-614)
SectionDimensionsOf(g, previous, MeshSize) ==
  IF MeshSize.X = previous.X THEN g.ArenaDimensions
  ELSE FloorDiv(2 * g.SideLength, MeshSize.X)

\* float RotationIncr = 360.f / Section.YawPossibilities
RotationIncrOf(YawPossibilities) ==
  IF YawPossibilities = 0 THEN NonFinite
  ELSE IF YawPossibilities > 0 THEN 360000 \div YawPossibilities
  ELSE -(360000 \div (-YawPossibilities))

\* int YawPosMax = FMath::Clamp(Section.YawPossibilities-1, 2, 720)
YawPosMaxOf(YawPossibilities) == Clamp(YawPossibilities - 1, 2, 720)

\* a registration that does not look for GroupIdx in UsedGroupIndices
RegisterGroupAgain(g, GroupIdx) ==
  LET valid == SelectSeq(g.MeshGroups[GroupIdx + 1].GroupMeshes, LAMBDA m : m.Mesh)
      base == NewObjectId(g.World)
      ToInstance == [i \in 1..Len(valid) |-> base + i - 1]
  IN  [g EXCEPT
         !.UsedGroupIndices = Append(@, GroupIdx),
         !.MeshInstances = Append(@, ToInstance),
         !.World = @ \cup {WorldObject(ToInstance[i], "ISM") : i \in DOMAIN ToInstance}]

\* group registration (BaseArenaGenerator.cpp:449-483)
RegisterGroup(g, GroupIdx) ==
  IF GroupIdx \in SeqRange(g.UsedGroupIndices) THEN g
  ELSE LET valid == SelectSeq(g.MeshGroups[GroupIdx + 1].GroupMeshes, LAMBDA m : m.Mesh)
           base == NewObjectId(g.World)
           ToInstance == [i \in 1..Len(valid) |-> base + i - 1]
       IN  [g EXCEPT
              !.UsedGroupIndices = Append(@, GroupIdx),
              !.MeshInstances = Append(@, ToInstance),
              !.World = @ \cup {WorldObject(ToInstance[i], "ISM") : i \in DOMAIN ToInstance}]

\* the rotation switch of a cell: RandomVal, the drawn yaw and the stream
DrawRotation(seed, Section, YawPosMax) ==
  CASE Section.RotationRule = "RotateByYP" ->
         LET r == RandRange(seed, 0, YawPosMax)
         IN  [RandomVal |-> r.Value, bYaw |-> FALSE, Yaw |-> 0, Stream |-> r.Stream]
    [] Section.RotationRule = "RotateYawRandomly" ->
         LET r == FRandRange(seed, 0, 360000)
         IN  [RandomVal |-> 0, bYaw |-> TRUE, Yaw |-> r.Value, Stream |-> r.Stream]
    [] OTHER -> [RandomVal |-> 0, bYaw |-> FALSE, Yaw |-> 0, Stream |-> seed]

\* RotationIncr * RandomVal
YawStep(RotationIncr, RandomVal) ==
  IF RotationIncr = NonFinite THEN NonFinite ELSE Times(RotationIncr, RandomVal)

AddYaw(a, b) == IF a = NonFinite \/ b = NonFinite THEN NonFinite ELSE a + b

\* the directional warp of a cell, or no draw
DrawWarp(seed, Section) ==
  IF Section.bWarpPlacement THEN PlacementWarpingDirectional(seed, Section.WarpRange)
  ELSE [Value |-> ZeroVector, Stream |-> seed]

\* an emit switch that adds the instance and leaves TotalInstances alone
EmitUncounted(g, c, TileTransform) ==
  IF c.Section.AssetToPlace = "Actors"
  THEN LET id == NewObjectId(g.World)
       IN  [g EXCEPT
              !.World = @ \cup {[WorldObject(id, "Actor") EXCEPT !.Instances = <<TileTransform>>]},
              !.SpawnedActors = Append(@, id),
              !.Emitted = Append(@, TileTransform)]
  ELSE LET bucket == g.MeshInstances[c.ReRouteIdx + 1]
       IN  IF bucket = <<>>
           THEN IF g.UB.bCrash \/ ~g.UB.bNull THEN [g EXCEPT !.Crashed = TRUE]
                ELSE LogError(g)
           ELSE [g EXCEPT
                   !.World = {IF o.Id = bucket[1]
                              THEN [o EXCEPT !.Instances = Append(@, TileTransform)]
                              ELSE o : o \in @},
                   !.Emitted = Append(@, TileTransform)]

\* the emit switch of a cell (BaseArenaGenerator.cpp:560-590, 672-697)
Emit(g, c, TileTransform) ==
  IF c.Section.AssetToPlace = "Actors"
  THEN LET id == NewObjectId(g.World)
       IN  [g EXCEPT
              !.World = @ \cup {[WorldObject(id, "Actor") EXCEPT !.Instances = <<TileTransform>>]},
              !.SpawnedActors = Append(@, id),
              !.Emitted = Append(@, TileTransform)]
  ELSE LET bucket == g.MeshInstances[c.ReRouteIdx + 1]
       IN  IF bucket = <<>>
           THEN \* MeshInstances[ReRouteIdx][MeshIdx] read past the end
                IF g.UB.bCrash \/ ~g.UB.bNull THEN [g EXCEPT !.Crashed = TRUE]
                ELSE LogError(g)
           ELSE [g EXCEPT
                   !.World = {IF o.Id = bucket[1]
                              THEN [o EXCEPT !.Instances = Append(@, TileTransform)]
                              ELSE o : o \in @},
                   !.TotalInstances = @ + 1,
                   !.Emitted = Append(@, TileTransform)]

\* MeshGroups[GroupIdx].GroupMeshes[MeshIdx] is read inside the arrays
PivotReadable(g, GroupIdx) ==
  ValidIndex(g.MeshGroups, GroupIdx) /\ g.MeshGroups[GroupIdx + 1].GroupMeshes # <<>>

\* one cell of the Polygon loops (BaseArenaGenerator.cpp:510-594)
PolygonCell(g, c, SideIdx, LenIdx, HeightIdx) ==
  LET Section == c.Section
      rot == DrawRotation(g.ArenaStream, Section, c.YawPosMax)
      SideYaw == Times(360000 \div g.ArenaSides, SideIdx)
      YawRotation == IF rot.bYaw THEN rot.Yaw ELSE SideYaw
      \* FRotationMatrix(FRotator(0, YawRotation, 0)).GetScaledAxis(EAxis::Y)
      SideAngleRV == Vec(-Sin(SideYaw), Cos(SideYaw), 0)
      concavity == IF c.bConcavity
                   THEN PlacementWarpingConcavity(TruncDiv(c.CurrTilesPerSide, 2),
                                                  TruncDiv(c.CurrTilesPerSide, 2),
                                                  LenIdx, HeightIdx,
                                                  Section.WarpConcavityStrength, SideAngleRV)
                   ELSE ZeroVector
      warp == DrawWarp(rot.Stream, Section)
      TileTransform ==
        [ Rotation |-> [Pitch |-> Section.DefaultRotation.Pitch,
                        Yaw |-> AddYaw(Section.DefaultRotation.Yaw + YawRotation,
                                       YawStep(c.RotationIncr, rot.RandomVal)),
                        Roll |-> Section.DefaultRotation.Roll],
          LocationZ |-> g.OriginOffset.Z
                        + Mul(c.MeshSize.Z, Times(Section.OffsetByHeightIncrement, HeightIdx))
                        + c.HeightAdjustment + concavity.Z + warp.Value.Z,
          Warp |-> warp.Value,
          Concavity |-> concavity,
          Scale |-> c.MeshScale,
          Level |-> HeightIdx,
          RandomVal |-> rot.RandomVal ]
  IN  IF Section.AssetToPlace = "StaticMeshes" /\ ~PivotReadable(g, c.GroupIdx) /\ g.UB.bCrash
      THEN [g EXCEPT !.ArenaStream = rot.Stream, !.Crashed = TRUE]
      ELSE Emit([g EXCEPT !.ArenaStream = warp.Stream], c, TileTransform)

\* one cell of the HorizontalGrid loops (BaseArenaGenerator.cpp:619-698)
GridCell(g, c, TimesIdx, Row, Col) ==
  LET Section == c.Section
      rot == DrawRotation(g.ArenaStream, Section, c.YawPosMax)
      YawRotation == IF rot.bYaw THEN rot.Yaw ELSE 0
      warp == DrawWarp(rot.Stream, Section)
      concavity == IF c.bConcavity
                   THEN PlacementWarpingConcavity(TruncDiv(c.CurrTilesPerSide, 2),
                                                  TruncDiv(c.CurrTilesPerSide, 2),
                                                  Row, Col,
                                                  Section.WarpConcavityStrength, Vec(0, 0, 1000))
                   ELSE ZeroVector
      TileTransform ==
        [ Rotation |-> [Pitch |-> Section.DefaultRotation.Pitch,
                        Yaw |-> AddYaw(YawRotation, YawStep(c.RotationIncr, rot.RandomVal)),
                        Roll |-> Section.DefaultRotation.Roll],
          LocationZ |-> g.OriginOffset.Z + Times(c.MeshSize.Z, TimesIdx) + c.HeightAdjustment
                        + warp.Value.Z + concavity.Z,
          Warp |-> warp.Value,
          Concavity |-> concavity,
          Scale |-> c.MeshScale,
          Level |-> TimesIdx,
          RandomVal |-> rot.RandomVal ]
  IN  IF ~PivotReadable(g, c.GroupIdx) /\ g.UB.bCrash
      THEN [g EXCEPT !.ArenaStream = rot.Stream, !.Crashed = TRUE]
      ELSE Emit([g EXCEPT !.ArenaStream = warp.Stream], c, TileTransform)

\* the loops of a section, cell k of n in the order the loops visit them
RECURSIVE PolygonCells(_, _, _, _)
PolygonCells(g, c, k, n) ==
  IF k >= n \/ g.Crashed THEN g
  ELSE LET perSide == c.CurrTilesPerSide * c.Amount
       IN  PolygonCells(PolygonCell(g, c, k \div perSide, (k \div c.Amount) % c.CurrTilesPerSide,
                                    k % c.Amount),
                        c, k + 1, n)

RECURSIVE GridCells(_, _, _, _)
GridCells(g, c, k, n) ==
  IF k >= n \/ g.Crashed THEN g
  ELSE LET perLevel == c.SectionDimensions * c.SectionDimensions
       IN  GridCells(GridCell(g, c, k \div perLevel, (k \div c.SectionDimensions) % c.SectionDimensions,
                              k % c.SectionDimensions),
                     c, k + 1, n)

\* number of times a loop "for (i = 0; i < bound; i++)" runs
Trips(bound) == IF bound > 0 THEN bound ELSE 0

\* LastCachedPosition when the Polygon loops end (BaseArenaGenerator.cpp:495, 508)
RECURSIVE LastCachedPosition(_, _, _, _)
LastCachedPosition(g, MeshSize, CurrTilesPerSide, sides) ==
  IF sides <= 0 THEN ZeroVector
  ELSE LET SideIdx == sides - 1
           SideAngleFV == ForwardVectorFromYaw(Times(g.ExteriorAngle, SideIdx))
           steps == Trips(CurrTilesPerSide - 1) + (IF sides < g.ArenaSides THEN 1 ELSE 0)
           step == ScaleV(SideAngleFV, MeshSize.X)
       IN  AddV(LastCachedPosition(g, MeshSize, CurrTilesPerSide, sides - 1),
                Vec(step.X * steps, step.Y * steps, 0))

\* the values a call of BuildSection fixes before its loops
\* (BaseArenaGenerator.cpp:274-313, 445-446, 613-614)
SectionContext(g, Section) ==
  LET meshes == Section.AssetToPlace = "StaticMeshes"
      GroupIdx == ResolveGroupIndex(Section.ObjectGroupId,
                                    IF meshes THEN Len(g.MeshGroups) ELSE Len(g.ActorGroups))
      MeshSize == IF meshes THEN g.MeshGroups[GroupIdx + 1].MeshDimensions
                  ELSE g.ActorGroups[GroupIdx + 1].ActorDimensions
      previous == IF g.PreviousMeshSize = ZeroVector THEN MeshSize ELSE g.PreviousMeshSize
  IN  [ Section |-> Section,
        Amount |-> Section.SectionAmount,
        bMeshes |-> meshes,
        bPolygon |-> Section.SectionType = "Polygon",
        GroupIdx |-> GroupIdx,
        ReRouteIdx |-> 0,
        MeshSize |-> MeshSize,
        MeshScale |-> IF meshes THEN g.MeshGroups[GroupIdx + 1].MeshScale
                      ELSE g.ActorGroups[GroupIdx + 1].ActorScale,
        Previous |-> previous,
        CurrTilesPerSide |-> CurrTilesPerSideOf(g, previous, MeshSize),
        SectionDimensions |-> SectionDimensionsOf(g, previous, MeshSize),
        HeightAdjustment |-> Mul(MeshSize.Z, Section.InitOffsetByHeightScalar),
        bConcavity |-> Section.bWarpPlacement /\ Section.WarpConcavityStrength # 0,
        RotationIncr |-> RotationIncrOf(Section.YawPossibilities),
        YawPosMax |-> YawPosMaxOf(Section.YawPossibilities) ]

\* number of cells the loops of a section visit
CellCount(g, c) ==
  IF c.bPolygon THEN Trips(g.ArenaSides) * Trips(c.CurrTilesPerSide) * c.Amount
  ELSE c.Amount * Trips(c.SectionDimensions) * Trips(c.SectionDimensions)

\* group registration of a StaticMeshes rule, with ReRouteIdx
Registered(g1, c) == IF c.bMeshes THEN RegisterGroup(g1, c.GroupIdx) ELSE g1

WithReRouteIdx(c, g2) ==
  [c EXCEPT !.ReRouteIdx = IF c.bMeshes THEN Find(g2.UsedGroupIndices, c.GroupIdx) ELSE 0]

\* BuildSection up to its loops (BaseArenaGenerator.cpp:306-483)
BeforeLoops(g, c) ==
  Registered([g EXCEPT
                !.PreviousMeshSize = c.Previous,
                !.PreviousTilesPerSide = IF @ = 0 THEN g.TilesPerArenaSide ELSE @,
                !.OriginOffset = UpdatedOriginOffset(g, c.Section, c.MeshSize, c.MeshScale,
                                                     c.CurrTilesPerSide)],
             c)

\* the loops of BuildSection (BaseArenaGenerator.cpp:486-705), entered with g2
RunLoops(g, g2, c) ==
  IF c.bPolygon THEN PolygonCells(g2, WithReRouteIdx(c, g2), 0, CellCount(g, c))
  ELSE GridCells(g2, WithReRouteIdx(c, g2), 0, CellCount(g, c))

\* the raise without the test of bUpdatesOriginOffsetHeight
HeightRaiseUnconditional(Section, MeshSize) ==
  Mul(Times(MeshSize.Z, Section.SectionAmount), Section.OffsetByHeightIncrement)

\* the raise of OriginOffset.Z after the loops (BaseArenaGenerator.cpp:602-604, 702-704)
HeightRaise(Section, MeshSize) ==
  IF Section.bUpdatesOriginOffsetHeight
  THEN Mul(Times(MeshSize.Z, Section.SectionAmount), Section.OffsetByHeightIncrement)
  ELSE 0

\* BuildSection after its loops, which began with g and ended with g3
\* (BaseArenaGenerator.cpp:598-604, 702-710)
AfterLoops(g, c, g3) ==
  IF g3.Crashed THEN g3
  ELSE [g3 EXCEPT
          !.PreviousTilesPerSide = IF c.bPolygon THEN c.CurrTilesPerSide ELSE @,
          !.PreviousLastPosition =
             IF c.bPolygon
             THEN LastCachedPosition(g, c.MeshSize, c.CurrTilesPerSide, g.ArenaSides)
             ELSE @,
          !.OriginOffset = [@ EXCEPT !.Z = @ + HeightRaise(c.Section, c.MeshSize)],
          !.PreviousMeshSize = c.MeshSize]

\* the catalog entries a call of BuildSection indexes
CatalogReads(g, c) ==
  (IF c.bMeshes \/ (~c.bPolygon /\ CellCount(g, c) > 0)
   THEN {<<"MeshGroups", c.GroupIdx>>} ELSE {})
  \cup (IF ~c.bMeshes THEN {<<"ActorGroups", 0>>, <<"ActorGroups", c.GroupIdx>>} ELSE {})

\* the record of a call of BuildSection that began with g, ran its loops to
\* g3 and returned with g4
Recorded(g, c, g3, g4) ==
  [g4 EXCEPT
     !.Builds = Append(@, [ Rejected |-> FALSE,
                            Rule |-> c.Section,
                            Reads |-> CatalogReads(g, c),
                            Completed |-> ~g3.Crashed,
                            GroupIdx |-> c.GroupIdx,
                            ReRouteIdx |-> WithReRouteIdx(c, g3).ReRouteIdx,
                            MeshSize |-> c.MeshSize,
                            ArenaSides |-> g.ArenaSides,
                            Geometry |-> GeometryOf(g),
                            CurrTilesPerSide |-> c.CurrTilesPerSide,
                            SectionDimensions |-> c.SectionDimensions,
                            PreviousMeshSize |-> g.PreviousMeshSize,
                            InteriorAngle |-> g.InteriorAngle,
                            RotationIncr |-> c.RotationIncr,
                            YawPosMax |-> c.YawPosMax,
                            Cells |-> CellCount(g, c),
                            Placed |-> (Len(g3.Emitted) - Len(g.Emitted)),
                            OriginZBefore |-> g.OriginOffset.Z,
                            OriginZAfter |-> g4.OriginOffset.Z ])]

Finished(g, c, g3) == Recorded(g, c, g3, AfterLoops(g, c, g3))

\* BuildSection of a rule that is not rejected, in the context c
BuildAccepted(g, c) == Finished(g, c, RunLoops(g, BeforeLoops(g, c), c))

\* the record of a rejected call
RejectedCall(g, Section) ==
  [ Rejected |-> TRUE, Rule |-> Section,
    Reads |-> IF Section.AssetToPlace = "Actors" /\ g.ActorGroups # <<>>
              THEN {<<"ActorGroups", 0>>} ELSE {} ]

\* ABaseArenaGenerator::BuildSection.  The record appended to g.Builds
\* describes the call: the rule, whether it was rejected, the loop bounds it
\* used and OriginOffset.Z before and after.
BuildSection(g, SectionIn) ==
  IF g.Crashed THEN g
  ELSE IF Rejects(g, SectionIn)
  THEN [LogError(g) EXCEPT !.Builds = Append(@, RejectedCall(g, SectionIn))]
  ELSE BuildAccepted(g, SectionContext(g, [SectionIn EXCEPT !.SectionAmount = CoercedAmount(@)]))

\* the rule is passed by reference, so the coerced SectionAmount stays in
\* the list
KeepsCoercedAmount(g, i, j, after) ==
  IF g.Crashed \/ Rejects(g, g.SectionList[i].BuildRules[j]) THEN after
  ELSE [after EXCEPT !.SectionList[i].BuildRules[j].SectionAmount = CoercedAmount(@)]

\* BuildSection on SectionList[i].BuildRules[j]
BuildSectionAt(g, i, j) ==
  KeepsCoercedAmount(g, i, j, BuildSection(g, g.SectionList[i].BuildRules[j]))

RECURSIVE BuildRulesFrom(_, _, _)
BuildRulesFrom(g, i, j) ==
  IF j > Len(g.SectionList[i].BuildRules) THEN g
  ELSE BuildRulesFrom(BuildSectionAt(g, i, j), i, j + 1)

RECURSIVE BuildSectionsFrom(_, _)
BuildSectionsFrom(g, i) ==
  IF i > Len(g.SectionList) THEN g
  ELSE BuildSectionsFrom(BuildRulesFrom(CalculateSectionParameters(g, g.SectionList[i]), i, 1), i + 1)

\* ABaseArenaGenerator::BuildSections
BuildSections(g) ==
  IF g.MeshGroups = <<>> /\ g.ActorGroups = <<>> THEN LogError(g)
  ELSE IF g.SectionList = <<>> THEN LogWarning(g)
  ELSE BuildSectionsFrom(g, 1)

\* ABaseArenaGenerator::GenerateArena
GenerateArena(g) == BuildSections(WipeArena(g))

\* ABaseArenaGenerator::ConvertToStaticMeshActors: one standalone actor per
\* instance of every component held by MeshInstances
RECURSIVE SpawnStaticMeshActors(_, _)
SpawnStaticMeshActors(world, transforms) ==
  IF transforms = <<>> THEN world
  ELSE SpawnStaticMeshActors(
         world \cup {[WorldObject(NewObjectId(world), "StaticMeshActor")
                        EXCEPT !.Instances = <<Head(transforms)>>]},
         Tail(transforms))

RECURSIVE InstancesOf(_, _)
InstancesOf(world, ids) ==
  IF ids = <<>> THEN <<>>
  ELSE LET held == {o \in world : o.Id = Head(ids)}
       IN  (IF held = {} THEN <<>> ELSE (CHOOSE o \in held : TRUE).Instances)
           \o InstancesOf(world, Tail(ids))

RECURSIVE Flatten(_)
Flatten(buckets) == IF buckets = <<>> THEN <<>> ELSE Head(buckets) \o Flatten(Tail(buckets))

\* a conversion that releases the components it converted
ConvertAndRelease(g) ==
  IF g.MeshInstances = <<>> THEN LogWarning(g)
  ELSE [g EXCEPT !.World = SpawnStaticMeshActors(@, InstancesOf(@, Flatten(g.MeshInstances))),
                 !.MeshInstances = <<>>,
                 !.UsedGroupIndices = <<>>]

ConvertToStaticMeshActors(g) ==
  IF g.MeshInstances = <<>> THEN LogWarning(g)
  ELSE [g EXCEPT !.World = SpawnStaticMeshActors(@, InstancesOf(@, Flatten(g.MeshInstances)))]

\* ------------------------------------------------------- configurations
GroupA == FArenaMeshGroupConfig(Vec(2000, 2000, 1000), <<FArenaMesh("XY_Positive", TRUE)>>)
GroupB == FArenaMeshGroupConfig(Vec(1000, 1000, 500), <<FArenaMesh("Center", TRUE)>>)
ActorsA == FArenaActorConfig(Vec(1000, 1000, 1000), <<"ActorClass">>)

RulePolygonYP == [FArenaSectionBuildRules EXCEPT !.RotationRule = "RotateByYP"]
RulePolygonPlain ==
  [FArenaSectionBuildRules EXCEPT !.SectionAmount = 0, !.OffsetByHeightIncrement = 500]
RuleGridWarp ==
  [FArenaSectionBuildRules EXCEPT
     !.SectionType = "HorizontalGrid", !.ObjectGroupId = 1, !.bWarpPlacement = TRUE,
     !.WarpConcavityStrength = 500, !.InitOffsetByHeightScalar = 500]
RulePolygonActors ==
  [FArenaSectionBuildRules EXCEPT
     !.AssetToPlace = "Actors", !.RotationRule = "RotateYawRandomly",
     !.bUpdatesOriginOffsetHeight = FALSE]
RuleGridActors ==
  [FArenaSectionBuildRules EXCEPT !.SectionType = "HorizontalGrid", !.AssetToPlace = "Actors"]

RuleGridLevels ==
  [FArenaSectionBuildRules EXCEPT !.SectionType = "HorizontalGrid", !.SectionAmount = 2]

Configuration(meshes, actors, sections, placement) ==
  [MeshGroups |-> meshes, ActorGroups |-> actors, SectionList |-> sections,
   ArenaPlacementOnActor |-> placement]

RulePolygonActorsPlain ==
  [FArenaSectionBuildRules EXCEPT !.AssetToPlace = "Actors", !.bUpdatesOriginOffsetHeight = FALSE]

SectionActors ==
  FArenaSection("PolygonLeadByRadius", FArenaSectionTargets(700, 0, 1, 2),
                <<RulePolygonActorsPlain, RuleGridActors>>)

\* a mesh group whose only mesh reference is null, and one with no mesh
GroupNullMesh == FArenaMeshGroupConfig(Vec(1000, 1000, 500), <<FArenaMesh("Center", FALSE)>>)
GroupNoMeshes == FArenaMeshGroupConfig(Vec(1000, 1000, 500), <<>>)

SectionTriangle ==
  FArenaSection("PolygonLeadByDimensions", FArenaSectionTargets(2500, 3, 1, 2),
                <<FArenaSectionBuildRules>>)

\* two sections of one grid cell each; the second rule of each refers to a
\* mesh group outside the catalog
RuleGridNegative == [FArenaSectionBuildRules EXCEPT !.SectionType = "HorizontalGrid", !.ObjectGroupId = -1]
RuleGridBeyond == [FArenaSectionBuildRules EXCEPT !.SectionType = "HorizontalGrid", !.ObjectGroupId = 5]

SectionsStacked ==
  << FArenaSection("GridLeadsByDimensions", FArenaSectionTargets(2500, 3, 1, 1),
                   <<RuleGridLevels, RuleGridNegative>>),
     FArenaSection("GridLeadsByDimensions", FArenaSectionTargets(2500, 3, 1, 1),
                   <<RuleGridLevels, RuleGridBeyond>>) >>

\* two sections on a catalog of two mesh groups: one grid cell on two levels
\* with a default yaw and half-height levels, one grid cell with no yaw
\* possibility, then a triangle of the other mesh group with two yaw
\* possibilities
RuleGridTurned ==
  [FArenaSectionBuildRules EXCEPT
     !.SectionType = "HorizontalGrid", !.ObjectGroupId = 1, !.SectionAmount = 2,
     !.DefaultRotation = [Pitch |-> 0, Yaw |-> 30000, Roll |-> 0],
     !.OffsetByHeightIncrement = 500]
RuleGridYawZero ==
  [FArenaSectionBuildRules EXCEPT
     !.SectionType = "HorizontalGrid", !.ObjectGroupId = 1, !.RotationRule = "RotateByYP",
     !.YawPossibilities = 0, !.bUpdatesOriginOffsetHeight = FALSE]
RulePolygonYawPairs ==
  [FArenaSectionBuildRules EXCEPT
     !.RotationRule = "RotateByYP", !.YawPossibilities = 2, !.bUpdatesOriginOffsetHeight = FALSE]

SectionsOriented ==
  << FArenaSection("GridLeadsByDimensions", FArenaSectionTargets(2500, 3, 1, 1),
                   <<RuleGridTurned, RuleGridYawZero>>),
     FArenaSection("PolygonLeadByDimensions", FArenaSectionTargets(2500, 3, 1, 1),
                   <<RulePolygonYawPairs>>) >>

\* a triangle whose target of tiles per side is negative
SectionNegativeTiles ==
  FArenaSection("PolygonLeadByDimensions", FArenaSectionTargets(2500, 3, -2, 1),
                <<FArenaSectionBuildRules>>)

\* a triangle of two tiles per side built of one mesh group, then of a
\* mesh group twice as wide
RulePolygonRescaled ==
  [FArenaSectionBuildRules EXCEPT !.ObjectGroupId = 1, !.bUpdatesOriginOffsetHeight = FALSE]

SectionRescaled ==
  FArenaSection("PolygonLeadByDimensions", FArenaSectionTargets(2500, 3, 2, 1),
                <<FArenaSectionBuildRules, RulePolygonRescaled>>)

\* The projects the generator is used in: the host edits the configuration
\* of the generator among the configurations of one project.
Projects ==
  { { Configuration(<<GroupA>>, <<>>,
        <<FArenaSection("PolygonLeadByDimensions", FArenaSectionTargets(2500, 4, 1, 2),
                        <<RulePolygonYP, RulePolygonPlain>>)>>, "Center") },
    { Configuration(<<GroupA, GroupB>>, <<ActorsA>>,
        <<FArenaSection("GridLeadsByDimensions", FArenaSectionTargets(2500, 4, 1, 2),
                        <<RuleGridWarp, RulePolygonActors>>)>>, "XY_Positive") },
    { Configuration(<<GroupB>>, <<ActorsA>>, <<SectionActors>>, "XY_Negative"),
      Configuration(<<>>, <<ActorsA>>, <<SectionActors>>, "X_Positive_Y_Negative"),
      Configuration(<<>>, <<>>,
        <<FArenaSection("GridLeadsByRadius", FArenaSectionTargets(2500, 0, 1, 2),
                        <<RulePolygonYP, RuleGridActors>>)>>, "X_Negative_Y_Positive") },
    { Configuration(<<GroupB>>, <<>>,
        <<FArenaSection("GridLeadsByDimensions", FArenaSectionTargets(2500, 3, 1, 1),
                        <<RuleGridLevels>>)>>, "Center") },
    { Configuration(<<GroupNullMesh>>, <<>>, <<SectionTriangle>>, "Center"),
      Configuration(<<GroupNoMeshes>>, <<>>, <<SectionTriangle>>, "Center") },
    { Configuration(<<GroupB>>, <<>>, SectionsStacked, "XY_Positive") },
    { Configuration(<<GroupA, GroupB>>, <<>>, SectionsOriented, "Center") },
    { Configuration(<<GroupB>>, <<>>, <<SectionNegativeTiles>>, "Center") },
    { Configuration(<<GroupB, GroupA>>, <<>>, <<SectionRescaled>>, "Center") } }

Configurations == UNION Projects

\* What an out-of-range array read does: the range check of the build stops
\* the program (bCrash), or the read yields whatever lies there: Group for a
\* mesh group, a null (bNull) or a wild component pointer.
RangeCheckFails == [bCrash |-> TRUE, bNull |-> TRUE, Group |-> GroupA]
ReadsGarbage ==
  {[bCrash |-> FALSE, bNull |-> n, Group |-> grp] : n \in BOOLEAN, grp \in {GroupA, GroupB}}

\* ------------------------------------------------------------ variables
VARIABLES
  MeshGroups, ActorGroups, SectionList, ArenaPlacementOnActor,
  ArenaStream, TotalInstances, FocusGridIndex, FocusPolygonIndex,
  UsedGroupIndices, MeshInstances, SpawnedActors, CurrentBOR,
  OriginOffset, PreviousMeshSize, PreviousTilesPerSide, PreviousLastPosition,
  ArenaSides, InteriorAngle, ExteriorAngle, InscribedRadius, SideLength, Apothem,
  ArenaDimensions, TilesPerArenaSide,
  World,      \* the objects alive in the host scene
  Errors,     \* errors reported by the latest public call
  Warnings,   \* warnings reported by the latest public call
  Builds,     \* one record per BuildSection call of the latest public call
  Emitted,    \* the placement transforms emitted by the latest public call
  Derived,    \* one record per CalculateSectionParameters call of the latest public call
  Crashed,    \* the program was stopped by a failed range check or a wild pointer
  lastOp,     \* the latest public call
  Inputs,     \* the arguments the utility functions are called with
  Returned    \* the values the utility functions returned, by function name

vars ==
  << MeshGroups, ActorGroups, SectionList, ArenaPlacementOnActor,
     ArenaStream, TotalInstances, FocusGridIndex, FocusPolygonIndex,
     UsedGroupIndices, MeshInstances, SpawnedActors, CurrentBOR,
     OriginOffset, PreviousMeshSize, PreviousTilesPerSide, PreviousLastPosition,
     ArenaSides, InteriorAngle, ExteriorAngle, InscribedRadius, SideLength, Apothem,
     ArenaDimensions, TilesPerArenaSide,
     World, Errors, Warnings, Builds, Emitted, Derived, Crashed, lastOp, Inputs, Returned >>

\* the generator as a record, with the outcome ub of out-of-range reads
Cur(ub) ==
  [ MeshGroups |-> MeshGroups, ActorGroups |-> ActorGroups, SectionList |-> SectionList,
    ArenaPlacementOnActor |-> ArenaPlacementOnActor,
    ArenaStream |-> ArenaStream, TotalInstances |-> TotalInstances,
    FocusGridIndex |-> FocusGridIndex, FocusPolygonIndex |-> FocusPolygonIndex,
    UsedGroupIndices |-> UsedGroupIndices, MeshInstances |-> MeshInstances,
    SpawnedActors |-> SpawnedActors, CurrentBOR |-> CurrentBOR,
    OriginOffset |-> OriginOffset, PreviousMeshSize |-> PreviousMeshSize,
    PreviousTilesPerSide |-> PreviousTilesPerSide,
    PreviousLastPosition |-> PreviousLastPosition,
    ArenaSides |-> ArenaSides, InteriorAngle |-> InteriorAngle,
    ExteriorAngle |-> ExteriorAngle, InscribedRadius |-> InscribedRadius,
    SideLength |-> SideLength, Apothem |-> Apothem,
    ArenaDimensions |-> ArenaDimensions, TilesPerArenaSide |-> TilesPerArenaSide,
    World |-> World, Errors |-> Errors, Warnings |-> Warnings, Builds |-> Builds,
    Emitted |-> Emitted, Derived |-> Derived, Crashed |-> Crashed, UB |-> ub ]

\* the variables after a call that left the generator as g
Becomes(g) ==
  /\ MeshGroups' = g.MeshGroups
  /\ ActorGroups' = g.ActorGroups
  /\ SectionList' = g.SectionList
  /\ ArenaPlacementOnActor' = g.ArenaPlacementOnActor
  /\ ArenaStream' = g.ArenaStream
  /\ TotalInstances' = g.TotalInstances
  /\ FocusGridIndex' = g.FocusGridIndex
  /\ FocusPolygonIndex' = g.FocusPolygonIndex
  /\ UsedGroupIndices' = g.UsedGroupIndices
  /\ MeshInstances' = g.MeshInstances
  /\ SpawnedActors' = g.SpawnedActors
  /\ CurrentBOR' = g.CurrentBOR
  /\ OriginOffset' = g.OriginOffset
  /\ PreviousMeshSize' = g.PreviousMeshSize
  /\ PreviousTilesPerSide' = g.PreviousTilesPerSide
  /\ PreviousLastPosition' = g.PreviousLastPosition
  /\ ArenaSides' = g.ArenaSides
  /\ InteriorAngle' = g.InteriorAngle
  /\ ExteriorAngle' = g.ExteriorAngle
  /\ InscribedRadius' = g.InscribedRadius
  /\ SideLength' = g.SideLength
  /\ Apothem' = g.Apothem
  /\ ArenaDimensions' = g.ArenaDimensions
  /\ TilesPerArenaSide' = g.TilesPerArenaSide
  /\ World' = g.World
  /\ Errors' = g.Errors
  /\ Warnings' = g.Warnings
  /\ Builds' = g.Builds
  /\ Emitted' = g.Emitted
  /\ Derived' = g.Derived
  /\ Crashed' = g.Crashed
  /\ UNCHANGED << Inputs, Returned >>

\* placements held by the sink of g
Placements(g) == g.TotalInstances + Len(g.SpawnedActors)
Baked(g) == Cardinality({o \in g.World : o.Class = "StaticMeshActor"})

WithinBounds(g) ==
  /\ Placements(g) <= MaxPlacements
  /\ g.OriginOffset.Z <= MaxHeight
  /\ Baked(g) <= MaxBaked

\* no utility function has been called
NothingReturned == [f \in {} |-> ZeroVector]

\* ABaseArenaGenerator::ABaseArenaGenerator, then the host's configuration.
\* CurrentBOR has no initializer in the constructor.
Constructed ==
  /\ ArenaStream = SeededStream
  /\ TotalInstances = 0
  /\ FocusGridIndex = 0
  /\ FocusPolygonIndex = 0
  /\ UsedGroupIndices = <<>>
  /\ MeshInstances = <<>>
  /\ SpawnedActors = <<>>
  /\ CurrentBOR \in EArenaBuildOrderRules
  /\ OriginOffset = ZeroVector
  /\ PreviousMeshSize = ZeroVector
  /\ PreviousTilesPerSide = 0
  /\ PreviousLastPosition = ZeroVector
  /\ ArenaSides = 0
  /\ InteriorAngle = 0
  /\ ExteriorAngle = 0
  /\ InscribedRadius = 0
  /\ SideLength = 0
  /\ Apothem = 0
  /\ ArenaDimensions = 0
  /\ TilesPerArenaSide = 0
  /\ World = {}
  /\ Errors = 0
  /\ Warnings = 0
  /\ Builds = <<>>
  /\ Emitted = <<>>
  /\ Derived = <<>>
  /\ Crashed = FALSE
  /\ lastOp = "Construct"
  /\ Returned = NothingReturned

\* the properties of the generator the host edits
Configured(cfg) ==
  /\ MeshGroups = cfg.MeshGroups
  /\ ActorGroups = cfg.ActorGroups
  /\ SectionList = cfg.SectionList
  /\ ArenaPlacementOnActor = cfg.ArenaPlacementOnActor

\* the public operations take no arguments
NoInputs == [Kind |-> "None"]

Init == Constructed /\ Inputs = NoInputs /\ \E cfg \in Configurations : Configured(cfg)

\* ------------------------------------------------------------- actions
\* SectionList with every SectionAmount as BuildSection leaves it
RulesCoerced(rules) == [j \in DOMAIN rules |-> [rules[j] EXCEPT !.SectionAmount = CoercedAmount(@)]]
SectionsCoerced(sections) ==
  [i \in DOMAIN sections |-> [sections[i] EXCEPT !.BuildRules = RulesCoerced(@)]]

IsConfigured(cfg) ==
  /\ MeshGroups = cfg.MeshGroups
  /\ ActorGroups = cfg.ActorGroups
  /\ SectionsCoerced(SectionList) = SectionsCoerced(cfg.SectionList)
  /\ ArenaPlacementOnActor = cfg.ArenaPlacementOnActor

\* the generator a public call starts from, its log cleared, with the
\* outcome ub of the out-of-range reads it may make
Entered(ub) == ClearLog(Cur(ub))

\* the outcomes of out-of-range reads open to a call that the range check
\* leaves as checked: every outcome when a read was out of range, and
\* nothing to choose when none was
Outcomes(checked) == IF checked.Crashed THEN {RangeCheckFails} \cup ReadsGarbage ELSE {RangeCheckFails}

\* the host edits the configuration between two calls
Configure ==
  /\ ~Crashed
  /\ \E project \in Projects :
        /\ \E cfg \in project : IsConfigured(cfg)
        /\ \E cfg \in project :
              /\ MeshGroups' = cfg.MeshGroups
              /\ ActorGroups' = cfg.ActorGroups
              /\ SectionList' = cfg.SectionList
              /\ ArenaPlacementOnActor' = cfg.ArenaPlacementOnActor
  /\ lastOp' = "Configure"
  /\ Errors' = 0 /\ Warnings' = 0 /\ Builds' = <<>> /\ Emitted' = <<>> /\ Derived' = <<>>
  /\ UNCHANGED << ArenaStream, TotalInstances, FocusGridIndex, FocusPolygonIndex,
                  UsedGroupIndices, MeshInstances, SpawnedActors, CurrentBOR,
                  OriginOffset, PreviousMeshSize, PreviousTilesPerSide, PreviousLastPosition,
                  ArenaSides, InteriorAngle, ExteriorAngle, InscribedRadius, SideLength,
                  Apothem, ArenaDimensions, TilesPerArenaSide, World, Crashed,
                  Inputs, Returned >>

CallGenerateArena ==
  /\ ~Crashed
  /\ \E g \in {GenerateArena(Entered(ub)) : ub \in Outcomes(GenerateArena(Entered(RangeCheckFails)))} :
        WithinBounds(g) /\ Becomes(g)
  /\ lastOp' = "GenerateArena"

CallWipeArena ==
  /\ ~Crashed
  /\ \E g \in {WipeArena(Entered(ub)) : ub \in Outcomes(WipeArena(Entered(RangeCheckFails)))} : Becomes(g)
  /\ lastOp' = "WipeArena"

CallBuildSections ==
  /\ ~Crashed
  /\ \E g \in {BuildSections(Entered(ub)) : ub \in Outcomes(BuildSections(Entered(RangeCheckFails)))} :
        WithinBounds(g) /\ Becomes(g)
  /\ lastOp' = "BuildSections"

CallBuildSection ==
  /\ ~Crashed
  /\ \E i \in DOMAIN SectionList :
        \E j \in DOMAIN SectionList[i].BuildRules :
          \E g \in {BuildSectionAt(Entered(ub), i, j) :
                     ub \in Outcomes(BuildSectionAt(Entered(RangeCheckFails), i, j))} :
            WithinBounds(g) /\ Becomes(g)
  /\ lastOp' = "BuildSection"

CallConvertToStaticMeshActors ==
  /\ ~Crashed
  /\ \E g \in {ConvertToStaticMeshActors(Entered(ub)) :
                 ub \in Outcomes(ConvertToStaticMeshActors(Entered(RangeCheckFails)))} :
        WithinBounds(g) /\ Becomes(g)
  /\ lastOp' = "ConvertToStaticMeshActors"

Next ==
  \/ Configure
  \/ CallGenerateArena
  \/ CallWipeArena
  \/ CallBuildSections
  \/ CallBuildSection
  \/ CallConvertToStaticMeshActors

Spec == Init /\ [][Next]_vars

\* ------------------------------------------- the parameter deriver alone
\* CalculateSectionParameters applied to sections over a range of targets.
GroupC == FArenaMeshGroupConfig(Vec(500, 500, 500), <<FArenaMesh("Center", TRUE)>>)

RulePolygonGroupC == [FArenaSectionBuildRules EXCEPT !.ObjectGroupId = 2]

DeriveRadii == {2000, 2000000}
DeriveSides == {0, 7, 8, 121}
DeriveTiles == {-2, 0, 4, 101}
DeriveRules == {<<RulePolygonYP>>, <<RuleGridWarp, RulePolygonGroupC>>, <<RuleGridBeyond>>}

DeriveConfigurations ==
  { Configuration(<<GroupA, GroupB, GroupC>>, <<>>,
                  <<FArenaSection(bor, FArenaSectionTargets(radius, sides, tiles, 3), rules)>>,
                  "Center") :
      bor \in EArenaBuildOrderRules, radius \in DeriveRadii, sides \in DeriveSides,
      tiles \in DeriveTiles, rules \in DeriveRules }

InitDerive == Constructed /\ Inputs = NoInputs /\ \E cfg \in DeriveConfigurations : Configured(cfg)

CallCalculateSectionParameters ==
  /\ ~Crashed
  /\ \E i \in DOMAIN SectionList :
        \E g \in {CalculateSectionParameters(Entered(ub), SectionList[i]) :
                   ub \in Outcomes(CalculateSectionParameters(Entered(RangeCheckFails), SectionList[i]))} :
          Becomes(g)
  /\ lastOp' = "CalculateSectionParameters"

NextDerive == CallCalculateSectionParameters

SpecDerive == InitDerive /\ [][NextDerive]_vars

\* -------------------------------------------- the utility functions alone
\* The pivot-math functions and the concavity warp applied to arguments over
\* a range of pivots, sizes, rotations and grid cells.
PivotSizes == {Vec(1000, 1000, 500), Vec(2000, 1000, 1000)}
PivotRotationIndices == -1 .. 4
PivotAngles == {0, 45000, 200000}
PivotDirections ==
  { [FV |-> Vec(1000, 0, 0), RV |-> Vec(0, 1000, 0)],
    [FV |-> Vec(0, 1000, 0), RV |-> Vec(-1000, 0, 0)] }

PivotInputs ==
  { [Kind |-> "Pivot", OriginType |-> origin, MeshSize |-> size, RotationIndex |-> index,
     angle |-> angle, FV |-> dir.FV, RV |-> dir.RV] :
      origin \in EOriginPlacementType, size \in PivotSizes, index \in PivotRotationIndices,
      angle \in PivotAngles, dir \in PivotDirections }

WarpMidpoints == 0 .. 2
WarpCells == 0 .. 4
WarpStrengths == {500, 2000}
WarpDirections == {Vec(0, 0, 1000), Vec(0, 1000, 0)}

WarpInputs ==
  { [Kind |-> "Warp", ColMidpoint |-> cm, RowMidpoint |-> rm, Col |-> c, Row |-> r,
     ConcavityStrength |-> strength, WarpDirection |-> dir] :
      cm \in WarpMidpoints, rm \in WarpMidpoints, c \in WarpCells, r \in WarpCells,
      strength \in WarpStrengths, dir \in WarpDirections }

\* what a vector without an initializer may hold
UninitializedVectors == {ZeroVector, Vec(-7000, 3000, 9000)}

InitPivot ==
  /\ Constructed
  /\ Configured(Configuration(<<GroupA>>, <<>>, <<>>, "Center"))
  /\ CurrentBOR = "PolygonLeadByRadius"
  /\ Inputs \in PivotInputs \cup WarpInputs

\* every variable of the generator; the utility functions below read and
\* write none of them
GeneratorVars ==
  << MeshGroups, ActorGroups, SectionList, ArenaPlacementOnActor,
     ArenaStream, TotalInstances, FocusGridIndex, FocusPolygonIndex,
     UsedGroupIndices, MeshInstances, SpawnedActors, CurrentBOR,
     OriginOffset, PreviousMeshSize, PreviousTilesPerSide, PreviousLastPosition,
     ArenaSides, InteriorAngle, ExteriorAngle, InscribedRadius, SideLength, Apothem,
     ArenaDimensions, TilesPerArenaSide,
     World, Errors, Warnings, Builds, Emitted, Derived, Crashed >>

\* the function named fn returned value
Returns(fn, value) ==
  /\ Returned' = [f \in DOMAIN Returned \cup {fn} |-> IF f = fn THEN value ELSE Returned[f]]
  /\ lastOp' = fn
  /\ UNCHANGED << GeneratorVars, Inputs >>

CallRotatedMeshOffset ==
  /\ Inputs.Kind = "Pivot"
  /\ Returns("RotatedMeshOffset",
             RotatedMeshOffset(Inputs.OriginType, Inputs.MeshSize, Inputs.RotationIndex))

CallOffsetMeshAlongDirections ==
  /\ Inputs.Kind = "Pivot"
  /\ \E garbage \in UninitializedVectors :
        Returns("OffsetMeshAlongDirections",
                OffsetMeshAlongDirections(Inputs.FV, Inputs.RV, Inputs.OriginType, Inputs.MeshSize,
                                          Inputs.RotationIndex, garbage))

CallOriginOffsetScalar ==
  /\ Inputs.Kind = "Pivot"
  /\ Returns("OriginOffsetScalar", OriginOffsetScalar(Inputs.OriginType))

CallOffsetMeshToCenter ==
  /\ Inputs.Kind = "Pivot"
  /\ Returns("OffsetMeshToCenter",
             OffsetMeshToCenter(Inputs.OriginType, Inputs.MeshSize, Inputs.angle))

CallPlacementWarpingConcavity ==
  /\ Inputs.Kind = "Warp"
  /\ Returns("PlacementWarpingConcavity",
             PlacementWarpingConcavity(Inputs.ColMidpoint, Inputs.RowMidpoint, Inputs.Col,
                                       Inputs.Row, Inputs.ConcavityStrength,
                                       Inputs.WarpDirection))

NextPivot ==
  \/ CallRotatedMeshOffset
  \/ CallOffsetMeshAlongDirections
  \/ CallOriginOffsetScalar
  \/ CallOffsetMeshToCenter
  \/ CallPlacementWarpingConcavity

SpecPivot == InitPivot /\ [][NextPivot]_vars

\* ------------------------------------------------------------ properties
\* the session state of the generator
SessionState ==
  << OriginOffset, PreviousMeshSize, PreviousTilesPerSide, PreviousLastPosition,
     UsedGroupIndices, TotalInstances, ArenaStream >>

\* the products of BuildSection alive in the scene
Sink == {o \in World : o.Class \in {"ISM", "Actor"}}

\* the records of the calls of BuildSection that ran their loops to the end
CompletedBuilds == {k \in DOMAIN Builds : ~Builds[k].Rejected /\ Builds[k].Completed}

\* the number of placements emitted before call k of BuildSection
RECURSIVE EmittedBefore(_)
EmittedBefore(k) ==
  IF k <= 1 THEN 0
  ELSE EmittedBefore(k - 1) + (IF Builds[k - 1].Rejected THEN 0 ELSE Builds[k - 1].Placed)

\* the placement transforms call k of BuildSection emitted
EmittedBy(k) ==
  IF Builds[k].Rejected THEN {}
  ELSE {Emitted[n] : n \in (EmittedBefore(k) + 1) .. (EmittedBefore(k) + Builds[k].Placed)}

\* C1: with the configuration unchanged, a GenerateArena pass that follows a
\* GenerateArena pass emits the sequence of placement transforms the first
\* pass emitted.
C1_SuccessivePassesEmitTheSame ==
  [][(lastOp = "GenerateArena" /\ lastOp' = "GenerateArena" /\ ~Crashed /\ ~Crashed')
       => Emitted' = Emitted]_vars

\* C2: after WipeArena every session state field has its initial value, the
\* random stream included.
C2_WipeResetsSessionState ==
  lastOp = "WipeArena" =>
    /\ OriginOffset = ZeroVector
    /\ PreviousMeshSize = ZeroVector
    /\ PreviousLastPosition = ZeroVector
    /\ PreviousTilesPerSide = 0
    /\ UsedGroupIndices = <<>>
    /\ TotalInstances = 0
    /\ ArenaStream = SeededStream

C4_PolygonSideBoundInRange ==
  \A k \in DOMAIN Builds :
    (~Builds[k].Rejected /\ Builds[k].Rule.SectionType = "Polygon")
      => Builds[k].ArenaSides \in 3..MaxSides

\* C5: after CalculateSectionParameters with a mesh catalog that is not
\* empty, TilesPerArenaSide is in [1, MaxTilesPerSideRow].
C5_TilesPerArenaSideInRange ==
  (lastOp = "CalculateSectionParameters" /\ ~Crashed /\ MeshGroups # <<>>)
    => TilesPerArenaSide \in 1..MaxTilesPerSideRow

\* C6: the InteriorAngle and ExteriorAngle CalculateSectionParameters
\* computes add up to 180 degrees (to the last digit of the fixed point).
C6_AnglesSupplementary ==
  (lastOp = "CalculateSectionParameters" /\ ~Crashed /\ ArenaSides \in 3..MaxSides)
    => Abs(InteriorAngle + ExteriorAngle - 180000) <= 1

\* C7: under the two polygon-led policies SideLength is the X dimension of
\* the focus polygon mesh group times TilesPerArenaSide, and under
\* PolygonLeadByDimensions TilesPerArenaSide is the target.
C7_SideLengthIsMeshTimesTiles ==
  (lastOp = "CalculateSectionParameters" /\ ~Crashed /\ PolygonLed(CurrentBOR)
     /\ ValidIndex(MeshGroups, FocusPolygonIndex))
    => /\ SideLength = MeshGroups[FocusPolygonIndex + 1].MeshDimensions.X * TilesPerArenaSide
       /\ CurrentBOR = "PolygonLeadByDimensions"
            => TilesPerArenaSide = SectionList[1].Targets.TargetTilesPerSide

\* the octagon of inscribed radius 2 derived by PolygonLeadByRadius with a
\* focus polygon mesh of X = 0.5: three tiles per side, SideLength 1.5
C7_Witness ==
  /\ lastOp = "CalculateSectionParameters" /\ ~Crashed
  /\ CurrentBOR = "PolygonLeadByRadius"
  /\ ArenaSides = 8
  /\ FocusPolygonIndex = 2
  /\ TilesPerArenaSide = 3
  /\ SideLength = 1500

\* C8: a call of BuildSection that is not rejected raises OriginOffset.Z by
\* MeshSize.Z x SectionAmount x OffsetByHeightIncrement when
\* bUpdatesOriginOffsetHeight is set and leaves it alone when it is not.
C8_HeightRaise ==
  \A k \in CompletedBuilds :
    Builds[k].OriginZAfter - Builds[k].OriginZBefore =
      IF Builds[k].Rule.bUpdatesOriginOffsetHeight
      THEN Mul(Builds[k].MeshSize.Z * Builds[k].Rule.SectionAmount,
               Builds[k].Rule.OffsetByHeightIncrement)
      ELSE 0

\* one public call built a grid section that raised the origin by its mesh
\* height and then a polygon section, with the flag off, that placed actors
\* and left the origin where it was
C8_Witness ==
  /\ \E k \in CompletedBuilds :
        /\ Builds[k].Rule.SectionType = "HorizontalGrid"
        /\ Builds[k].Rule.bUpdatesOriginOffsetHeight
        /\ Builds[k].Placed > 0
        /\ Builds[k].OriginZAfter = Builds[k].OriginZBefore + Builds[k].MeshSize.Z
        /\ Builds[k].MeshSize.Z > 0
  /\ \E k \in CompletedBuilds :
        /\ Builds[k].Rule.SectionType = "Polygon"
        /\ ~Builds[k].Rule.bUpdatesOriginOffsetHeight
        /\ Builds[k].Placed > 0
        /\ Builds[k].OriginZAfter = Builds[k].OriginZBefore
        /\ Builds[k].OriginZBefore > 0

\* C9: with an empty mesh catalog, a call of BuildSection emits nothing,
\* reports exactly one error, changes no session state and indexes no catalog.
C9_EmptyMeshCatalogRejectsEveryRule ==
  [][(lastOp' = "BuildSection" /\ MeshGroups = <<>> /\ ~Crashed')
       => /\ Emitted' = <<>>
          /\ Errors' = 1
          /\ SessionState' = SessionState
          /\ \A k \in DOMAIN Builds' : Builds'[k].Reads = {}]_vars

\* C10: a GenerateArena or BuildSections call whose parameter derivation met
\* an empty mesh catalog places nothing.
C10_AbortedDerivationPlacesNothing ==
  (lastOp \in {"GenerateArena", "BuildSections"} /\ \E d \in DOMAIN Derived : Derived[d].Aborted)
    => Emitted = <<>>

\* the calls of BuildSection for a StaticMeshes rule whose mesh group was
\* registered with no component for the mesh at index 0
BuildsWithoutBucket ==
  {k \in DOMAIN Builds :
     /\ ~Builds[k].Rejected
     /\ Builds[k].Rule.AssetToPlace = "StaticMeshes"
     /\ MeshInstances[Builds[k].ReRouteIdx + 1] = <<>>}

\* C11: a StaticMeshes rule whose mesh group has no usable instance bucket
\* for the chosen mesh (no mesh, or a null mesh at index 0) runs to the end
\* of its loops: every cell reports an error and places nothing,
\* TotalInstances is not incremented, and no read leaves the arrays.
C11_MissingBucketSkipsEveryCell ==
  \A k \in BuildsWithoutBucket :
    /\ ~Crashed
    /\ Builds[k].Completed
    /\ Builds[k].Placed = 0
    /\ Errors >= Builds[k].Cells
    /\ lastOp = "GenerateArena" => TotalInstances = 0

\* the pivot-math functions
PivotFunctions ==
  {"RotatedMeshOffset", "OffsetMeshAlongDirections", "OriginOffsetScalar", "OffsetMeshToCenter"}

\* C12: for the Center pivot each of the four pivot-math functions returns
\* the zero vector, whatever the mesh size and the rotation argument.
C12_CenterPivotHasNoOffset ==
  (Inputs.Kind = "Pivot" /\ Inputs.OriginType = "Center")
    => \A f \in DOMAIN Returned : f \in PivotFunctions => Returned[f] = ZeroVector

\* the four functions were called for a Center pivot with a mesh that is not
\* square, the rotation index 2 and an angle of 45 degrees
C12_Witness ==
  /\ Inputs.Kind = "Pivot" /\ Inputs.OriginType = "Center"
  /\ Inputs.MeshSize = Vec(2000, 1000, 1000)
  /\ Inputs.RotationIndex = 2 /\ Inputs.angle = 45000
  /\ DOMAIN Returned = PivotFunctions
  /\ \A f \in PivotFunctions : Returned[f] = ZeroVector

\* C13: PlacementWarpingConcavity(mid, mid, mid, mid, strength, dir) is the
\* zero vector for every strength > 0 and every midpoint mid >= 0, mid = 0
\* included.
C13_NoWarpAtTheMidpoint ==
  ( /\ Inputs.Kind = "Warp"
    /\ "PlacementWarpingConcavity" \in DOMAIN Returned
    /\ Inputs.ColMidpoint = Inputs.RowMidpoint
    /\ Inputs.Col = Inputs.ColMidpoint /\ Inputs.Row = Inputs.RowMidpoint
    /\ Inputs.ConcavityStrength > 0 )
    => Returned["PlacementWarpingConcavity"] = ZeroVector

\* squared length of a vector, in milli-units squared
SizeSquared(v) == v.X * v.X + v.Y * v.Y + v.Z * v.Z

\* C14: for strength > 0 the concavity warp of a cell on the border of the
\* index grid (column or row at 0 or at twice the midpoint) is zero, and no
\* cell is warped more than the cell at (ColMidpoint, RowMidpoint).
C14_WarpLargestAtTheCentre ==
  ( /\ Inputs.Kind = "Warp"
    /\ "PlacementWarpingConcavity" \in DOMAIN Returned
    /\ Inputs.ColMidpoint = Inputs.RowMidpoint /\ Inputs.RowMidpoint > 0
    /\ Inputs.Col <= 2 * Inputs.ColMidpoint /\ Inputs.Row <= 2 * Inputs.RowMidpoint
    /\ Inputs.ConcavityStrength > 0 )
    => /\ (Inputs.Col \in {0, 2 * Inputs.ColMidpoint} \/ Inputs.Row \in {0, 2 * Inputs.RowMidpoint})
            => Returned["PlacementWarpingConcavity"] = ZeroVector
       /\ SizeSquared(Returned["PlacementWarpingConcavity"])
            <= SizeSquared(PlacementWarpingConcavity(Inputs.ColMidpoint, Inputs.RowMidpoint,
                                                     Inputs.ColMidpoint, Inputs.RowMidpoint,
                                                     Inputs.ConcavityStrength,
                                                     Inputs.WarpDirection))

\* C15: ConvertToStaticMeshActors leaves OriginOffset, PreviousMeshSize,
\* PreviousTilesPerSide, PreviousLastPosition, UsedGroupIndices,
\* MeshInstances, SpawnedActors, TotalInstances and the random stream as
\* they were.
C15_ConversionKeepsSessionState ==
  [][lastOp' = "ConvertToStaticMeshActors"
       => UNCHANGED << OriginOffset, PreviousMeshSize, PreviousTilesPerSide, PreviousLastPosition,
                       UsedGroupIndices, MeshInstances, SpawnedActors, TotalInstances,
                       ArenaStream >>]_vars

\* a conversion baked the instances of a session that had registered a mesh
\* group, placed instances and raised the origin
C15_Witness ==
  /\ lastOp = "ConvertToStaticMeshActors"
  /\ \E o \in World : o.Class = "StaticMeshActor" /\ ~o.bStale
  /\ TotalInstances > 0
  /\ UsedGroupIndices # <<>>
  /\ MeshInstances # <<>>
  /\ PreviousMeshSize # ZeroVector
  /\ OriginOffset.Z > 0

\* C16: the TotalInstances reported at the end of GenerateArena is the
\* number of placements emitted during the pass, those of Actors rules
\* included.
C16_TotalInstancesCountsEveryPlacement ==
  (lastOp = "GenerateArena" /\ ~Crashed) => TotalInstances = Len(Emitted)

\* C17: a call of BuildSection made by GenerateArena that iterates cells
\* reads the geometry (ArenaSides, TilesPerArenaSide, InscribedRadius,
\* SideLength, Apothem, ArenaDimensions) of a derivation of this pass, never
\* one left by an earlier pass.
C17_GeometryDerivedInThisPass ==
  lastOp = "GenerateArena" =>
    \A k \in DOMAIN Builds :
      (~Builds[k].Rejected /\ Builds[k].Cells > 0)
        => \E d \in DOMAIN Derived :
             ~Derived[d].Aborted /\ Derived[d].Geometry = Builds[k].Geometry

\* the height raises of the calls of BuildSection before call k
RECURSIVE RaisedBefore(_)
RaisedBefore(k) ==
  IF k <= 1 THEN 0
  ELSE RaisedBefore(k - 1)
       + (IF Builds[k - 1].Rejected THEN 0
          ELSE Builds[k - 1].OriginZAfter - Builds[k - 1].OriginZBefore)

\* C18: during a GenerateArena pass every call of BuildSection starts with
\* OriginOffset.Z at the sum of the height raises of the earlier calls of
\* the pass, across the sections of SectionList.
C18_HeightCarriesAcrossSections ==
  (lastOp = "GenerateArena" /\ ~Crashed) =>
    \A k \in DOMAIN Builds :
      ~Builds[k].Rejected => Builds[k].OriginZBefore = RaisedBefore(k)

\* C19: CalculateSectionParameters reads MeshGroups at FocusGridIndex and
\* FocusPolygonIndex, and both are positions of MeshGroups.
C19_FocusIndicesInsideTheCatalog ==
  (lastOp = "CalculateSectionParameters" /\ MeshGroups # <<>>)
    => ValidIndex(MeshGroups, FocusGridIndex) /\ ValidIndex(MeshGroups, FocusPolygonIndex)

\* the size of the catalog of the asset kind of a rule
CatalogSize(Rule) == IF Rule.AssetToPlace = "Actors" THEN Len(ActorGroups) ELSE Len(MeshGroups)

\* C20: a call of BuildSection that is not rejected resolves the group
\* index to ObjectGroupId when that is a position of the catalog of the
\* rule's asset kind and to 0 otherwise, a position of that catalog.
C20_GroupIndexResolved ==
  \A k \in DOMAIN Builds :
    ~Builds[k].Rejected =>
      /\ Builds[k].GroupIdx =
           IF 0 <= Builds[k].Rule.ObjectGroupId
              /\ Builds[k].Rule.ObjectGroupId < CatalogSize(Builds[k].Rule)
           THEN Builds[k].Rule.ObjectGroupId ELSE 0
      /\ Builds[k].GroupIdx \in 0 .. CatalogSize(Builds[k].Rule) - 1

\* one pass resolved a negative index and an index beyond the catalog to 0
\* and placed a cell for each
C20_Witness ==
  /\ lastOp = "GenerateArena" /\ ~Crashed
  /\ \E k \in CompletedBuilds :
        Builds[k].Rule.ObjectGroupId < 0 /\ Builds[k].GroupIdx = 0 /\ Builds[k].Placed > 0
  /\ \E k \in CompletedBuilds :
        Builds[k].Rule.ObjectGroupId >= Len(MeshGroups) /\ Builds[k].GroupIdx = 0
        /\ Builds[k].Placed > 0

\* C21: every placement of a rule whose RotationRule is None, in a Polygon
\* and in a HorizontalGrid section, has the rule's DefaultRotation as its
\* rotation, unmodified.
C21_NoRotationRuleKeepsDefaultRotation ==
  \A k \in DOMAIN Builds :
    (~Builds[k].Rejected /\ Builds[k].Rule.RotationRule = "None")
      => \A t \in EmittedBy(k) : t.Rotation = Builds[k].Rule.DefaultRotation

\* the same for the HorizontalGrid sections alone
C21_GridKeepsDefaultRotation ==
  \A k \in DOMAIN Builds :
    (~Builds[k].Rejected /\ Builds[k].Rule.RotationRule = "None"
       /\ Builds[k].Rule.SectionType = "HorizontalGrid")
      => \A t \in EmittedBy(k) : t.Rotation = Builds[k].Rule.DefaultRotation

\* the yaw of a placement of call k of BuildSection before the rotation rule
\* adds to it: the default yaw and, in a Polygon section, the yaw of a side
BaseYaws(k) ==
  IF Builds[k].Rule.SectionType = "Polygon"
  THEN {Builds[k].Rule.DefaultRotation.Yaw + Times(360000 \div Builds[k].ArenaSides, SideIdx) :
          SideIdx \in 0 .. Builds[k].ArenaSides - 1}
  ELSE {0, Builds[k].Rule.DefaultRotation.Yaw}

\* C22: a rule with RotationRule RotateByYP and YawPossibilities = Y draws,
\* for every placement, an integer k with 0 <= k <= Y - 1 and adds
\* k * (360 / Y) to the yaw (Y = 2, Y = 4).
C22_YawDrawnAmongThePossibilities ==
  \A k \in DOMAIN Builds :
    (~Builds[k].Rejected /\ Builds[k].Rule.RotationRule = "RotateByYP"
       /\ Builds[k].Rule.YawPossibilities >= 2)
      => \A t \in EmittedBy(k) :
           /\ t.RandomVal \in 0 .. Builds[k].Rule.YawPossibilities - 1
           /\ \E base \in BaseYaws(k) :
                 t.Rotation.Yaw
                   = base + Times(360000 \div Builds[k].Rule.YawPossibilities, t.RandomVal)

\* the same for the rules with four yaw possibilities alone
C22_FourYawPossibilities ==
  \A k \in DOMAIN Builds :
    (~Builds[k].Rejected /\ Builds[k].Rule.RotationRule = "RotateByYP"
       /\ Builds[k].Rule.YawPossibilities = 4)
      => \A t \in EmittedBy(k) :
           /\ t.RandomVal \in 0 .. 3
           /\ \E base \in BaseYaws(k) : t.Rotation.Yaw = base + Times(90000, t.RandomVal)

\* a rule with four yaw possibilities drew the last of them
C22_FourWitness ==
  \E k \in DOMAIN Builds :
    /\ ~Builds[k].Rejected /\ Builds[k].Rule.RotationRule = "RotateByYP"
    /\ Builds[k].Rule.YawPossibilities = 4
    /\ \E t \in EmittedBy(k) : t.RandomVal = 3

\* C23: the divisor of the yaw increment is YawPossibilities clamped to
\* [2, 720]: no call of BuildSection divides by zero, and the increment
\* lies between 0.5 and 180 degrees.
C23_YawIncrementInRange ==
  \A k \in DOMAIN Builds :
    ~Builds[k].Rejected =>
      /\ Builds[k].RotationIncr # NonFinite
      /\ Builds[k].RotationIncr >= 500
      /\ Builds[k].RotationIncr <= 180000

\* the calls of BuildSection for a StaticMeshes rule
MeshBuilds == {k \in DOMAIN Builds : ~Builds[k].Rejected /\ Builds[k].Rule.AssetToPlace = "StaticMeshes"}

\* the placement transforms held by the components of bucket i of MeshInstances
HeldBy(i) == UNION {SeqRange(o.Instances) : o \in {w \in World : w.Id \in SeqRange(MeshInstances[i])}}

\* C24: UsedGroupIndices holds no group index twice and is as long as
\* MeshInstances; a StaticMeshes rule whose group index resolves to g places
\* into the bucket of MeshInstances at the position of g in
\* UsedGroupIndices, so a second rule on g reuses the bucket of the first.
C24_OneBucketPerUsedGroup ==
  /\ Len(UsedGroupIndices) = Len(MeshInstances)
  /\ \A i, j \in DOMAIN UsedGroupIndices : UsedGroupIndices[i] = UsedGroupIndices[j] => i = j
  /\ \A k \in MeshBuilds :
        /\ Builds[k].ReRouteIdx + 1 \in DOMAIN UsedGroupIndices
        /\ UsedGroupIndices[Builds[k].ReRouteIdx + 1] = Builds[k].GroupIdx
        /\ EmittedBy(k) \subseteq HeldBy(Builds[k].ReRouteIdx + 1)

\* a pass registered two groups out of the order of the catalog, and two
\* rules on one group placed into one bucket
C24_Witness ==
  /\ lastOp = "GenerateArena" /\ ~Crashed
  /\ Len(UsedGroupIndices) = 2
  /\ \E k \in MeshBuilds : Builds[k].ReRouteIdx # Builds[k].GroupIdx /\ Builds[k].Placed > 0
  /\ \E k1, k2 \in MeshBuilds :
        /\ k1 < k2 /\ Builds[k1].GroupIdx = Builds[k2].GroupIdx
        /\ Builds[k1].ReRouteIdx = Builds[k2].ReRouteIdx
        /\ Builds[k1].Placed > 0 /\ Builds[k2].Placed > 0

\* C25: for every section derived in a pass the focus grid index is the
\* ObjectGroupId of the first HorizontalGrid rule of that section and the
\* focus polygon index that of its first Polygon rule; with no rule of a
\* type in the section the index is 0, whatever earlier sections held.
C25_FocusIndicesOfTheSection ==
  lastOp = "GenerateArena" =>
    \A d \in DOMAIN Derived :
      ~Derived[d].Aborted =>
        /\ Derived[d].FocusGridIndex
             = FocusScan(Derived[d].Section.BuildRules, "HorizontalGrid", 0)
        /\ Derived[d].FocusPolygonIndex
             = FocusScan(Derived[d].Section.BuildRules, "Polygon", 0)

\* C26: with the forward vector (1, 0, 0) and the right vector (0, 1, 0)
\* OffsetMeshAlongDirections returns the vector RotatedMeshOffset returns,
\* for every pivot, mesh size and rotation index in {0, 1, 2, 3}, the
\* combinations with no offset in the table included.
C26_AxisAlignedDirectionsGiveRotatedOffset ==
  ( /\ Inputs.Kind = "Pivot"
    /\ Inputs.FV = Vec(1000, 0, 0) /\ Inputs.RV = Vec(0, 1000, 0)
    /\ Inputs.RotationIndex \in 0 .. 3
    /\ {"OffsetMeshAlongDirections", "RotatedMeshOffset"} \subseteq DOMAIN Returned )
    => Returned["OffsetMeshAlongDirections"] = Returned["RotatedMeshOffset"]

\* the same for the combinations the table of OffsetMeshAlongDirections
\* gives an offset to, and the Center pivot
C26_TabledOffsetsAgree ==
  ( /\ Inputs.Kind = "Pivot"
    /\ Inputs.FV = Vec(1000, 0, 0) /\ Inputs.RV = Vec(0, 1000, 0)
    /\ Inputs.RotationIndex \in 0 .. 3
    /\ \/ Inputs.OriginType = "Center"
       \/ RotatedMeshOffset(Inputs.OriginType, Inputs.MeshSize, Inputs.RotationIndex) # ZeroVector
    /\ {"OffsetMeshAlongDirections", "RotatedMeshOffset"} \subseteq DOMAIN Returned )
    => Returned["OffsetMeshAlongDirections"] = Returned["RotatedMeshOffset"]

\* the calls of BuildSection that ran their loops to the end with a bucket
\* to place into
BuildsWithBucket ==
  {k \in CompletedBuilds :
     Builds[k].Rule.AssetToPlace = "StaticMeshes" => MeshInstances[Builds[k].ReRouteIdx + 1] # <<>>}

\* max(1, SectionAmount)
AtLeastOne(SectionAmount) == IF SectionAmount < 1 THEN 1 ELSE SectionAmount

\* C27: a call of BuildSection that is not rejected and has a valid bucket
\* emits ArenaSides * CurrTilesPerSide * max(1, SectionAmount) placements
\* for a Polygon rule and max(1, SectionAmount) * SectionDimensions *
\* SectionDimensions placements for a HorizontalGrid rule.
C27_PlacementsPerCall ==
  \A k \in BuildsWithBucket :
    Builds[k].Placed =
      IF Builds[k].Rule.SectionType = "Polygon"
      THEN Builds[k].ArenaSides * Builds[k].CurrTilesPerSide * AtLeastOne(Builds[k].Rule.SectionAmount)
      ELSE AtLeastOne(Builds[k].Rule.SectionAmount)
           * Builds[k].SectionDimensions * Builds[k].SectionDimensions

\* the same for the calls whose loop bounds are not negative
C27_PlacementsOfBoundsNotNegative ==
  \A k \in BuildsWithBucket :
    (Builds[k].CurrTilesPerSide >= 0 /\ Builds[k].SectionDimensions >= 0) =>
      Builds[k].Placed =
        IF Builds[k].Rule.SectionType = "Polygon"
        THEN Builds[k].ArenaSides * Builds[k].CurrTilesPerSide
             * AtLeastOne(Builds[k].Rule.SectionAmount)
        ELSE AtLeastOne(Builds[k].Rule.SectionAmount)
             * Builds[k].SectionDimensions * Builds[k].SectionDimensions

\* the number of instances the components of the buckets hold
InstancesHeld(world, buckets) == Len(InstancesOf(world, Flatten(buckets)))

\* C28: in every state, the states after ConvertToStaticMeshActors
\* included, TotalInstances is the number of instances held by the
\* components of all buckets of MeshInstances, and no operation decreases
\* it but WipeArena (called directly, or by GenerateArena before it
\* builds), which sets it to 0.
C28_TotalInstancesCountsTheBuckets ==
  [][ /\ TotalInstances = InstancesHeld(World, MeshInstances)
      /\ TotalInstances' = InstancesHeld(World', MeshInstances')
      /\ \/ TotalInstances' >= TotalInstances
         \/ lastOp' = "WipeArena" /\ TotalInstances' = 0
         \/ lastOp' = "GenerateArena" ]_vars

\* a conversion left the instances of a pass in their buckets and
\* TotalInstances at their number
C28_Witness ==
  /\ lastOp = "ConvertToStaticMeshActors"
  /\ TotalInstances > 0
  /\ TotalInstances = InstancesHeld(World, MeshInstances)
  /\ Cardinality({o \in World : o.Class = "StaticMeshActor"}) = TotalInstances

\* C29: in a Polygon and in a HorizontalGrid section the placements of
\* level k stand, before warping, at OriginOffset.Z + MeshSize.Z * k *
\* OffsetByHeightIncrement + MeshSize.Z * InitOffsetByHeightScalar, so the
\* spacing of the levels is the spacing of the height raise.
C29_LevelHeight ==
  \A k \in CompletedBuilds :
    \A t \in EmittedBy(k) :
      t.LocationZ - t.Warp.Z - t.Concavity.Z
        = Builds[k].OriginZBefore
          + Mul(Builds[k].MeshSize.Z, Times(Builds[k].Rule.OffsetByHeightIncrement, t.Level))
          + Mul(Builds[k].MeshSize.Z, Builds[k].Rule.InitOffsetByHeightScalar)

\* the calls of BuildSection that were not rejected
AcceptedBuilds == {k \in DOMAIN Builds : ~Builds[k].Rejected}

\* C30: BuildSection uses TilesPerArenaSide as its tiles per side when the
\* X of its mesh is the X of the mesh of the rule built before it, or no
\* rule was built since the last wipe, and otherwise
\* floor(2 * CalculateOpposite(InscribedRadius, InteriorAngle / 2) / MeshSize.X)
\* clamped to [1, MaxTilesPerSideRow]; when the call returns
\* PreviousMeshSize is the mesh size of the rule it built.
C30_TilesPerSideOfTheCall ==
  /\ \A k \in AcceptedBuilds :
        /\ Builds[k].CurrTilesPerSide =
             IF Builds[k].PreviousMeshSize = ZeroVector
                \/ Builds[k].MeshSize.X = Builds[k].PreviousMeshSize.X
             THEN Builds[k].Geometry.TilesPerArenaSide
             ELSE Clamp(FloorDiv(2 * CalculateOpposite(Builds[k].Geometry.InscribedRadius,
                                                       Builds[k].InteriorAngle \div 2),
                                 Builds[k].MeshSize.X),
                        1, MaxTilesPerSideRow)
        /\ (k + 1 \in AcceptedBuilds /\ Builds[k].Completed)
             => Builds[k + 1].PreviousMeshSize = Builds[k].MeshSize
  /\ (Builds # <<>> /\ Len(Builds) \in CompletedBuilds)
       => PreviousMeshSize = Builds[Len(Builds)].MeshSize

\* a pass built a rule whose mesh is twice as wide as the mesh of the rule
\* before it, with a tile count that is not TilesPerArenaSide
C30_Witness ==
  /\ lastOp = "GenerateArena" /\ ~Crashed
  /\ \E k \in CompletedBuilds :
        /\ k > 1 /\ k - 1 \in CompletedBuilds
        /\ Builds[k].PreviousMeshSize = Builds[k - 1].MeshSize
        /\ Builds[k].MeshSize.X # Builds[k - 1].MeshSize.X
        /\ Builds[k].CurrTilesPerSide # Builds[k].Geometry.TilesPerArenaSide
        /\ Builds[k].Placed > 0
        /\ k = Len(Builds) /\ PreviousMeshSize = Builds[k].MeshSize

====
